---- MODULE Spec2Model ----
(***************************************************************************)
(* Model of the console control plane's convergence core:                  *)
(*   - the WorkerApp reconciler (k8s/controller/worker.go and the          *)
(*     controller's reconcile routine) running against a Kubernetes API    *)
(*     server that holds the five sub-resources of one workload,           *)
(*   - the sync-env / sync-secret jobs that rewrite the ConfigMap and      *)
(*     the Secret of the workload,                                         *)
(*   - the custom-domain verification loop (k8s/customdomain.go).          *)
(* The reconciler and the jobs are modelled at the granularity of one      *)
(* API call per step, so that concurrent invocations interleave exactly    *)
(* where the Go code can be preempted between a Get and the write that     *)
(* follows it.                                                             *)
(***************************************************************************)
EXTENDS Integers, Sequences, FiniteSets, TLC

(***************************************************************************)
(* Bounds of the model.                                                    *)
(***************************************************************************)
\* number of reconcile invocations one controller worker performs
MaxReconciles == 2
\* number of API calls that fail with a transient server error
MaxFailures == 1

(***************************************************************************)
(* Program constants.                                                      *)
(***************************************************************************)
ReservedEnvKeys == <<"COMBINATOR_API_ENDPOINT", "RAYSAIL_UID", "RAYSAIL_SECRET_KEY">>

\* k8s.CombinatorNamespace / k8s.WorkerNamespace / k8s.IngressNamespace / k8s.Domain
CombinatorNamespace == "combinator"
WorkerNamespace == "worker"
IngressNamespace == "ingress"
Domain == "example.org"

\* keys a user may put into the env ConfigMap or the Secret
UserKeys == {"USER_KEY"}
Keys == {ReservedEnvKeys[i] : i \in 1..Len(ReservedEnvKeys)} \cup UserKeys
UserVal == "user-val"

\* a Go map[string]string: a function whose domain is the set of keys present
EmptyMap == [k \in {} |-> ""]
MapsOver(S, v) == {[k \in T |-> v] : T \in SUBSET S}

(***************************************************************************)
(* Desired-state descriptors (WorkerAppSpec).                              *)
(***************************************************************************)
\* a Go int (64 bits) given as hi * 2^31 + lo with 0 <= lo < 2^31
GoInt(hi, lo) == [hi |-> hi, lo |-> lo]

\* x > 0 for a Go int
Positive(x) == x.hi > 0 \/ (x.hi = 0 /\ x.lo > 0)

\* the conversion int32(x) of a Go int: the low 32 bits, as a signed number
int32(x) == IF x.hi % 2 = 0 THEN x.lo ELSE x.lo - 2147483647 - 1

WorkerAppSpecs ==
    { [WorkerID |-> "abc123", OwnerID |-> "u1", OwnerSK |-> "sk-u1",
       Image |-> "nginx:latest", Port |-> 8080,
       AssignedCPU |-> "", AssignedMemory |-> "", AssignedDisk |-> "",
       MaxReplicas |-> GoInt(0, 0), MainRegion |-> ""],
      [WorkerID |-> "xyz789", OwnerID |-> "u2", OwnerSK |-> "sk-u2",
       Image |-> "app:2", Port |-> 3000,
       AssignedCPU |-> "2", AssignedMemory |-> "1Gi", AssignedDisk |-> "5Gi",
       MaxReplicas |-> GoInt(0, 3), MainRegion |-> "us-east-1"] }

WorkerName(workerID, ownerID) == "w-" \o workerID \o "-" \o ownerID

Name(s) == WorkerName(s.WorkerID, s.OwnerID)

Labels(s) == [app |-> Name(s), workerId |-> s.WorkerID, ownerId |-> s.OwnerID]

EnvConfigMapName(s) == Name(s) \o "-env"

SecretName(s) == Name(s) \o "-secret"

CombinatorEndpoint(s) ==
    "http://combinator." \o CombinatorNamespace \o ".svc.cluster.local:8899"

systemSecretData(s) ==
    [k \in {"COMBINATOR_API_ENDPOINT", "RAYSAIL_UID", "RAYSAIL_SECRET_KEY"} |->
        CASE k = "COMBINATOR_API_ENDPOINT" -> CombinatorEndpoint(s)
          [] k = "RAYSAIL_UID" -> s.OwnerID
          [] k = "RAYSAIL_SECRET_KEY" -> s.OwnerSK]

\* mutant of mapsCopy: dst is replaced by src
mapsCopyReplaces(dst, src) == src

\* maps.Copy(dst, src): every key of src is written into dst
mapsCopy(dst, src) ==
    [k \in (DOMAIN dst) \cup (DOMAIN src) |->
        IF k \in DOMAIN src THEN src[k] ELSE dst[k]]

\* mutant of mapDelete: the key is deleted together with every key that is
\* not reserved
mapDeleteFrom(m, key) ==
    [k \in {x \in DOMAIN m : \E i \in 1..Len(ReservedEnvKeys) :
                                ReservedEnvKeys[i] = x /\ ReservedEnvKeys[i] # key} |-> m[k]]

\* delete(m, key)
mapDelete(m, key) == [k \in (DOMAIN m) \ {key} |-> m[k]]

\* mutant of stripFrom: the loop stops before the last reserved key
RECURSIVE stripFromOffByOne(_, _, _)
stripFromOffByOne(data, dirty, i) ==
    IF i >= Len(ReservedEnvKeys) THEN [data |-> data, dirty |-> dirty]
    ELSE IF ReservedEnvKeys[i] \in DOMAIN data
         THEN stripFromOffByOne(mapDelete(data, ReservedEnvKeys[i]), TRUE, i + 1)
         ELSE stripFromOffByOne(data, dirty, i + 1)

\* the loop of EnsureConfigMap over ReservedEnvKeys[i..]: deletes every
\* reserved key found in data and reports whether anything was deleted
RECURSIVE stripFrom(_, _, _)
stripFrom(data, dirty, i) ==
    IF i > Len(ReservedEnvKeys) THEN [data |-> data, dirty |-> dirty]
    ELSE IF ReservedEnvKeys[i] \in DOMAIN data
         THEN stripFrom(mapDelete(data, ReservedEnvKeys[i]), TRUE, i + 1)
         ELSE stripFrom(data, dirty, i + 1)

\* mutant of stripReserved: the ConfigMap is written back whether or not a
\* key was deleted
stripReservedAlwaysDirty(data) ==
    [data |-> stripFrom(data, FALSE, 1).data, dirty |-> TRUE]

stripReserved(data) == stripFrom(data, FALSE, 1)

\* the characters of a string, one by one
Char(str, i) == SubSeq(str, i, i)

IsDigit(ch) == ch \in {"0", "1", "2", "3", "4", "5", "6", "7", "8", "9"}

\* the length of the run of digits of str that starts at position i
RECURSIVE DigitRun(_, _)
DigitRun(str, i) ==
    IF i <= Len(str) /\ IsDigit(Char(str, i)) THEN 1 + DigitRun(str, i + 1) ELSE 0

\* the suffixes of a quantity: binary SI, decimal SI, or a decimal exponent
QuantitySuffixes ==
    {"", "Ki", "Mi", "Gi", "Ti", "Pi", "Ei", "n", "u", "m", "k", "M", "G", "T", "P", "E"}

IsExponent(sfx) ==
    /\ Len(sfx) >= 2
    /\ Char(sfx, 1) \in {"e", "E"}
    /\ LET from == IF Char(sfx, 2) \in {"+", "-"} THEN 3 ELSE 2
       IN  from <= Len(sfx) /\ DigitRun(sfx, from) = Len(sfx) - from + 1

\* resource.ParseQuantity: an optional sign, a number with an optional
\* fraction, and a suffix; the result keeps the number and the suffix apart
ParseQuantity(q) ==
    LET start == IF Len(q) > 0 /\ Char(q, 1) \in {"+", "-"} THEN 2 ELSE 1
        ints == DigitRun(q, start)
        dot == start + ints <= Len(q) /\ Char(q, start + ints) = "."
        fracs == IF dot THEN DigitRun(q, start + ints + 1) ELSE 0
        numEnd == start + ints + (IF dot THEN 1 + fracs ELSE 0) - 1
        sfx == SubSeq(q, numEnd + 1, Len(q))
    IN  IF ints + fracs > 0 /\ (sfx \in QuantitySuffixes \/ IsExponent(sfx))
        THEN [err |-> FALSE, number |-> SubSeq(q, 1, numEnd), suffix |-> sfx]
        ELSE [err |-> TRUE, number |-> "", suffix |-> ""]

\* resource.MustParse: the parsed quantity (it panics on an error)
MustParse(q) == ParseQuantity(q)

\* the quantities of EnsureDeployment, with their defaults
cpuVal(s) == IF s.AssignedCPU = "" THEN "1" ELSE s.AssignedCPU

memVal(s) == IF s.AssignedMemory = "" THEN "500Mi" ELSE s.AssignedMemory

diskVal(s) == IF s.AssignedDisk = "" THEN "2Gi" ELSE s.AssignedDisk

\* EnsureDeployment panics in resource.MustParse on a malformed quantity
EnsureDeploymentPanics(s) ==
    \E q \in {cpuVal(s), memVal(s), diskVal(s)} : ParseQuantity(q).err


\* mutant of BuildDeployment: the node affinity is set whether or not the
\* descriptor names a region
BuildDeploymentAlwaysRegion(s) ==
    LET replicas == IF Positive(s.MaxReplicas) THEN int32(s.MaxReplicas) ELSE 1
        resources == [cpu |-> MustParse(cpuVal(s)), memory |-> MustParse(memVal(s)),
                      ephemeralStorage |-> MustParse(diskVal(s))]
    IN  [name |-> Name(s), namespace |-> WorkerNamespace, labels |-> Labels(s),
         replicas |-> replicas,
         image |-> s.Image, containerPort |-> s.Port,
         limits |-> resources, requests |-> resources,
         podAffinityPreferred |-> "combinator",
         nodeAffinityRequired |-> <<s.MainRegion>>,
         envFrom |-> <<EnvConfigMapName(s), SecretName(s)>>]

\* the Deployment object EnsureDeployment builds from the descriptor
BuildDeployment(s) ==
    LET replicas == IF Positive(s.MaxReplicas) THEN int32(s.MaxReplicas) ELSE 1
        resources == [cpu |-> MustParse(cpuVal(s)), memory |-> MustParse(memVal(s)),
                      ephemeralStorage |-> MustParse(diskVal(s))]
    IN  [name |-> Name(s), namespace |-> WorkerNamespace, labels |-> Labels(s),
         replicas |-> replicas,
         image |-> s.Image, containerPort |-> s.Port,
         limits |-> resources, requests |-> resources,
         podAffinityPreferred |-> "combinator",
         nodeAffinityRequired |-> IF s.MainRegion # "" THEN <<s.MainRegion>> ELSE <<>>,
         envFrom |-> <<EnvConfigMapName(s), SecretName(s)>>]

\* the Service object EnsureService builds from the descriptor
BuildService(s) ==
    [name |-> Name(s), namespace |-> WorkerNamespace, labels |-> Labels(s),
     selector |-> Name(s), port |-> s.Port, protocol |-> "TCP"]

\* the IngressRoute object EnsureIngressRoute builds from the descriptor
BuildIngressRoute(s) ==
    LET host == s.WorkerID \o "-" \o s.OwnerID \o ".worker." \o Domain
    IN  [name |-> Name(s), namespace |-> IngressNamespace, labels |-> Labels(s),
         entryPoints |-> <<"websecure">>,
         match |-> <<"Host", host>>,
         serviceName |-> Name(s), serviceNamespace |-> WorkerNamespace,
         servicePort |-> s.Port,
         tlsSecretName |-> "worker-tls"]

\* the descriptor of an earlier version of the same workload (same identity,
\* hence the same resource names, other image and port)
EarlierVersion(s) == [s EXCEPT !.Image = "old:1", !.Port = 80]


(***************************************************************************)
(* State.                                                                  *)
(***************************************************************************)
VARIABLES
    w,              \* the WorkerAppSpec the controller reconciles
    K8sClient,      \* k8s.K8sClient # nil
    DynamicClient,  \* k8s.DynamicClient # nil
    DNS01Client,    \* k8s.DNS01Client # nil (the builds with the jw238dns client)
    configMap,      \* the ConfigMap  w-..-env    in the API server
    secret,         \* the Secret     w-..-secret in the API server
    deployment,     \* the Deployment w-..        in the API server
    service,        \* the Service    w-..        in the API server
    ingressRoute,   \* the IngressRoute w-..      in the API server
    rvClock,        \* the API server's resourceVersion counter
    status,         \* status of the WorkerApp custom resource (phase, message)
    everRunning,    \* whether phase Running has ever been reported
    pc,             \* position of each reconcile invocation
    existing,       \* the object a reconcile invocation got from its last Get
    results,        \* per invocation: the ensure steps that returned, with their error
    reported,       \* per invocation: the phases passed to updateStatus
    writes,         \* per invocation: the create/update calls issued
    invocations,    \* number of reconcile invocations each worker has started
    prev,           \* outcome of the worker's previous invocation
    dropsErrors,    \* per invocation: whether its caller drops the errors of the ensure steps
    failures,       \* number of API calls that failed with a server error
    jobPc,          \* position of the sync-env / sync-secret job being executed
    jobData,        \* j.Data of the job being executed
    jobObj,         \* the object the job got from its Get
    jobErr,         \* err of the job's Update, and in the end what Do() returned
    jobsRun,        \* number of jobs executed so far
    workerStatus,   \* the worker's status column (dblayer.UpdateWorkerStatus)
    deploy,         \* the deploy job being executed: its position, rows and calls
    dbStatus,       \* persisted status of each custom-domain claim
    cdStatus,       \* cd.Status, the in-memory status of each claim
    vpc,            \* position of each claim's verification goroutine
    attempt,        \* number of verification attempts each run has made
    elapsed,        \* time each verification run has slept so far
    attemptLog,     \* per claim: for each attempt made, when it ran and how it ended
    provisioned,    \* per claim: number of calls of CreateIngressRoute
    cdResources,    \* per claim: the provisioned sub-resources that exist
    dbWrites,       \* per claim: the statuses written by UpdateCustomDomainStatus
    createCalls,    \* per claim: the Create calls CreateIngressRoute issued
    createErr,      \* per claim: what CreateIngressRoute returned
    dpc,            \* per claim: position of the DeleteCustomDomain call
    delErr,         \* per claim: what DeleteCustomDomain returned
    delCall,        \* per claim: the run's position and the resources when DeleteCustomDomain was called
    delLog,         \* per claim: the sub-resource deletions issued, with their results
    dnsTXT,         \* per claim: whether jw238dns holds the TXT record of the claim
    dnsCalls,       \* per claim: the jw238dns API calls that change records, with their error
    queue,          \* the Processor's buffer: the Jobs submitted and not yet taken
    procState,      \* the Processor: new, started, closing (Close called), closed
    wpc,            \* per Processor worker: not started, idle, running a Job, exited
    wjob,           \* per Processor worker: the Job whose Do() it is running
    spc,            \* per submitter: idle, or inside Submit with a Job
    sjob,           \* per submitter: the Job it constructed last
    made,           \* per submitter: the number of Job instances it constructed
    doCalls,        \* per Job instance: the number of calls of its Do()
    finished,       \* per Job instance: what its Do() returned
    atClose,        \* the Job instances whose Do() was running when Close was called
    accepted,       \* the Job instances Submit put into the buffer
    rejected,       \* the Job instances Submit refused
    fnIn,           \* the arguments a function of the descriptor is applied to
    fnOut           \* what the function returned

reconcileVars == <<pc, existing, results, reported, writes, invocations, prev, dropsErrors>>
clusterVars == <<configMap, secret, deployment, service, ingressRoute, rvClock>>
clientVars == <<w, K8sClient, DynamicClient, DNS01Client>>
jobVars == <<jobPc, jobData, jobObj, jobErr, jobsRun, workerStatus, deploy>>
deleteVars == <<dpc, delErr, delCall, delLog>>
dnsVars == <<dnsTXT, dnsCalls>>
domainVars == <<dbStatus, cdStatus, vpc, attempt, elapsed, attemptLog, provisioned,
                cdResources, dbWrites, createCalls, createErr, deleteVars, dnsVars>>
procVars == <<queue, procState, wpc, wjob, spc, sjob, made, doCalls, finished,
              atClose, accepted, rejected>>
fnVars == <<fnIn, fnOut>>
vars == <<clientVars, clusterVars, status, everRunning, reconcileVars, failures, jobVars, domainVars,
          procVars, fnVars>>

\* the controller workers that may run reconcile
Workers == {"A", "B"}

\* an object that does not exist (a Get of it reports NotFound)
NoObject == [exists |-> FALSE, rv |-> 0, body |-> EmptyMap]

Object(rv, body) == [exists |-> TRUE, rv |-> rv, body |-> body]

(***************************************************************************)
(* The Kubernetes API server, as the client-go calls of the code see it.   *)
(* Every call returns [err, res]: the error ("" for nil) and the stored    *)
(* object after the call.                                                  *)
(***************************************************************************)
\* a call that fails with a transient server error and has no effect
ServerError(res) == [err |-> "ServerError", res |-> res]

\* client.Create: rejected when an object of that name exists
Create(res, body) ==
    IF res.exists THEN [err |-> "AlreadyExists", res |-> res]
    ELSE [err |-> "", res |-> Object(rvClock + 1, body)]

\* client.Update of an object that carries resourceVersion rv (0: none).
\* A stale resourceVersion is a conflict; without one the update is
\* unconditional where the resource kind allows it.  Writing an identical
\* object stores nothing and keeps the resourceVersion.
Update(res, body, rv, allowUnconditional) ==
    IF ~res.exists THEN [err |-> "NotFound", res |-> res]
    ELSE IF rv = 0 /\ ~allowUnconditional THEN [err |-> "Invalid", res |-> res]
    ELSE IF rv # 0 /\ rv # res.rv THEN [err |-> "Conflict", res |-> res]
    ELSE IF res.body = body THEN [err |-> "", res |-> res]
    ELSE [err |-> "", res |-> Object(rvClock + 1, body)]

\* whether the next API call may fail with a server error
InjectChoices == IF failures < MaxFailures THEN {TRUE, FALSE} ELSE {FALSE}

Injected(inject) == failures' = IF inject THEN failures + 1 ELSE failures

\* bookkeeping of a create/update call of worker p on a resource `res`
Wrote(p, kind, verb, res, out) ==
    /\ writes' = [writes EXCEPT ![p] =
                    Append(@, [kind |-> kind, verb |-> verb, err |-> out.err,
                               changed |-> out.res # res])]
    /\ rvClock' = IF out.res # res THEN rvClock + 1 ELSE rvClock

(***************************************************************************)
(* WorkerController.reconcile                                              *)
(***************************************************************************)
\* mutant of updateStatus: the message is not passed on
updateStatusNoMessage(p, phase, message) ==
    /\ status' = [phase |-> phase, message |-> ""]
    /\ everRunning' = (everRunning \/ phase = "Running")
    /\ reported' = [reported EXCEPT ![p] =
                      Append(@, [phase |-> phase, message |-> ""])]

\* wc.ctrl.updateStatus(u, WorkerAppGVR, phase, message)
updateStatus(p, phase, message) ==
    /\ status' = [phase |-> phase, message |-> message]
    /\ everRunning' = (everRunning \/ phase = "Running")
    /\ reported' = [reported EXCEPT ![p] =
                      Append(@, [phase |-> phase, message |-> message])]

\* mutant of StepFails: the return after the report is missing, reconcile
\* goes on with the next step
StepFailsGoesOn(p, step, err) ==
    /\ results' = [results EXCEPT ![p] = Append(@, [step |-> step, err |-> err])]
    /\ updateStatus(p, "Failed", err)
    /\ pc' = [pc EXCEPT ![p] =
                CASE step = "configmap" -> "sec_get"
                  [] step = "secret" -> "dep_get"
                  [] step = "deployment" -> "svc_get"
                  [] step = "service" -> "ir_get"
                  [] OTHER -> "done"]
    /\ existing' = [existing EXCEPT ![p] = NoObject]

\* the position of a caller that goes on after the ensure step `step`
AfterStep(step) ==
    CASE step = "configmap" -> "sec_get"
      [] step = "secret" -> "dep_get"
      [] step = "deployment" -> "svc_get"
      [] step = "service" -> "ir_get"
      [] OTHER -> "report_running"

\* an ensure step returned to the caller that calls the five steps one
\* after the other as statements: whatever it returned is dropped, and the
\* caller goes on with the next step, or with the report after the last
StepDropped(p, step, err) ==
    /\ results' = [results EXCEPT ![p] = Append(@, [step |-> step, err |-> err])]
    /\ UNCHANGED <<status, everRunning, reported>>
    /\ pc' = [pc EXCEPT ![p] = AfterStep(step)]
    /\ existing' = [existing EXCEPT ![p] = NoObject]

\* an ensure step returned err # nil: log, report Failed, return
StepFails(p, step, err) ==
    IF dropsErrors[p] THEN StepDropped(p, step, err)
    ELSE /\ results' = [results EXCEPT ![p] = Append(@, [step |-> step, err |-> err])]
         /\ updateStatus(p, "Failed", err)
         /\ pc' = [pc EXCEPT ![p] = "done"]
         /\ existing' = [existing EXCEPT ![p] = NoObject]

\* an ensure step returned nil after its Get: reconcile goes on with the next
\* step
StepSucceeds(p, step, next) ==
    /\ results' = [results EXCEPT ![p] = Append(@, [step |-> step, err |-> ""])]
    /\ UNCHANGED <<status, everRunning, reported>>
    /\ pc' = [pc EXCEPT ![p] = next]
    /\ existing' = [existing EXCEPT ![p] = NoObject]

\* an ensure step returned what its Create or Update call returned: reconcile
\* has the error in hand and has not reported it yet, or goes on with `next`
StepReturns(p, step, err, next) ==
    IF dropsErrors[p] THEN StepDropped(p, step, err)
    ELSE /\ results' = [results EXCEPT ![p] = Append(@, [step |-> step, err |-> err])]
         /\ UNCHANGED <<status, everRunning, reported>>
         /\ pc' = [pc EXCEPT ![p] = IF err = "" THEN next ELSE "report_failed"]
         /\ existing' = [existing EXCEPT ![p] = NoObject]

\* a Get succeeded and the step goes on to its write
GoOn(p, next, obj) ==
    /\ pc' = [pc EXCEPT ![p] = next]
    /\ existing' = [existing EXCEPT ![p] = obj]
    /\ UNCHANGED <<results, status, everRunning, reported>>

\* outcome of the invocation that worker p has just finished
Outcome(p) ==
    IF pc[p] # "done" THEN prev[p]
    ELSE [phase |-> reported[p][Len(reported[p])].phase,
          failedAt |-> IF results[p] # <<>> /\ results[p][Len(results[p])].err # ""
                       THEN Len(results[p]) ELSE 0]

\* reconcile(u) with an object from which no WorkerAppSpec can be read:
\* workerFromUnstructured returns nil and reconcile returns at once
reconcileNil(p) ==
    /\ pc[p] \in {"idle", "done"}
    /\ invocations[p] < MaxReconciles
    /\ invocations' = [invocations EXCEPT ![p] = @ + 1]
    /\ UNCHANGED <<pc, existing, results, reported, writes, prev, dropsErrors, status,
                   everRunning, failures>>
    /\ UNCHANGED <<clusterVars, clientVars, jobVars, domainVars, procVars, fnVars>>

\* reconcile(u) up to the first ensure step: report Deploying
reconcile(p) ==
    /\ pc[p] \in {"idle", "done"}
    /\ invocations[p] < MaxReconciles
    /\ invocations' = [invocations EXCEPT ![p] = @ + 1]
    /\ prev' = [prev EXCEPT ![p] = Outcome(p)]
    /\ results' = [results EXCEPT ![p] = <<>>]
    /\ writes' = [writes EXCEPT ![p] = <<>>]
    /\ status' = [phase |-> "Deploying", message |-> ""]
    /\ reported' = [reported EXCEPT ![p] = <<[phase |-> "Deploying", message |-> ""]>>]
    /\ pc' = [pc EXCEPT ![p] = "cm_get"]
    /\ dropsErrors' = [dropsErrors EXCEPT ![p] = FALSE]
    /\ UNCHANGED <<existing, everRunning, failures, clusterVars, clientVars, jobVars, domainVars,
                   procVars, fnVars>>


\* what every ensure step leaves alone
StepFrame == UNCHANGED <<invocations, prev, dropsErrors, clientVars, jobVars, domainVars, procVars, fnVars>>

\* a Get call of an ensure step: it fails, or reports the stored object
GetFrame == UNCHANGED <<writes, clusterVars>>

(***************************************************************************)
(* EnsureConfigMap                                                         *)
(***************************************************************************)
\* the nil check and client.Get, and for an existing ConfigMap the loop
\* that strips the reserved keys
EnsureConfigMapGet(p) ==
    /\ pc[p] = "cm_get"
    /\ IF ~K8sClient
       THEN StepFails(p, "configmap", "k8s client not initialized") /\ UNCHANGED failures
       ELSE \E inject \in InjectChoices :
              /\ Injected(inject)
              /\ IF inject THEN StepFails(p, "configmap", "ServerError")
                 ELSE IF ~configMap.exists THEN GoOn(p, "cm_create", NoObject)
                 ELSE LET stripped == stripReserved(configMap.body)
                      IN  IF stripped.dirty
                          THEN GoOn(p, "cm_update", Object(configMap.rv, stripped.data))
                          ELSE StepSucceeds(p, "configmap", "sec_get")
    /\ GetFrame /\ StepFrame

\* client.Create of the empty ConfigMap
EnsureConfigMapCreate(p) ==
    /\ pc[p] = "cm_create"
    /\ \E inject \in InjectChoices :
         LET out == IF inject THEN ServerError(configMap) ELSE Create(configMap, EmptyMap)
         IN  /\ Injected(inject)
             /\ configMap' = out.res
             /\ Wrote(p, "configmap", "create", configMap, out)
             /\ StepReturns(p, "configmap", out.err, "sec_get")
    /\ UNCHANGED <<secret, deployment, service, ingressRoute>> /\ StepFrame

\* client.Update of the stripped ConfigMap
EnsureConfigMapUpdate(p) ==
    /\ pc[p] = "cm_update"
    /\ \E inject \in InjectChoices :
         LET out == IF inject THEN ServerError(configMap)
                    ELSE Update(configMap, existing[p].body, existing[p].rv, TRUE)
         IN  /\ Injected(inject)
             /\ configMap' = out.res
             /\ Wrote(p, "configmap", "update", configMap, out)
             /\ StepReturns(p, "configmap", out.err, "sec_get")
    /\ UNCHANGED <<secret, deployment, service, ingressRoute>> /\ StepFrame

(***************************************************************************)
(* EnsureSecret                                                            *)
(***************************************************************************)
\* the nil check and client.Get, and for an existing Secret the forced
\* injection of the system variables into the object that was read
EnsureSecretGet(p) ==
    /\ pc[p] = "sec_get"
    /\ IF ~K8sClient
       THEN StepFails(p, "secret", "k8s client not initialized") /\ UNCHANGED failures
       ELSE \E inject \in InjectChoices :
              /\ Injected(inject)
              /\ IF inject THEN StepFails(p, "secret", "ServerError")
                 ELSE IF ~secret.exists THEN GoOn(p, "sec_create", NoObject)
                 ELSE GoOn(p, "sec_update",
                           Object(secret.rv, mapsCopy(secret.body, systemSecretData(w))))
    /\ GetFrame /\ StepFrame

\* client.Create of the Secret holding the system variables
EnsureSecretCreate(p) ==
    /\ pc[p] = "sec_create"
    /\ \E inject \in InjectChoices :
         LET out == IF inject THEN ServerError(secret)
                    ELSE Create(secret, systemSecretData(w))
         IN  /\ Injected(inject)
             /\ secret' = out.res
             /\ Wrote(p, "secret", "create", secret, out)
             /\ StepReturns(p, "secret", out.err, "dep_get")
    /\ UNCHANGED <<configMap, deployment, service, ingressRoute>> /\ StepFrame

\* client.Update of the Secret that was read, system variables overwritten
EnsureSecretUpdate(p) ==
    /\ pc[p] = "sec_update"
    /\ \E inject \in InjectChoices :
         LET out == IF inject THEN ServerError(secret)
                    ELSE Update(secret, existing[p].body, existing[p].rv, TRUE)
         IN  /\ Injected(inject)
             /\ secret' = out.res
             /\ Wrote(p, "secret", "update", secret, out)
             /\ StepReturns(p, "secret", out.err, "dep_get")
    /\ UNCHANGED <<configMap, deployment, service, ingressRoute>> /\ StepFrame

(***************************************************************************)
(* EnsureDeployment                                                        *)
(***************************************************************************)
\* mutant of EnsureDeploymentGet: the nil check is missing
EnsureDeploymentGetNoNilCheck(p) ==
    /\ pc[p] = "dep_get"
    /\ \E inject \in InjectChoices :
         /\ Injected(inject)
         /\ IF inject THEN StepFails(p, "deployment", "ServerError")
            ELSE IF ~deployment.exists THEN GoOn(p, "dep_create", NoObject)
            ELSE GoOn(p, "dep_update", NoObject)
    /\ GetFrame /\ StepFrame

\* the nil check and client.Get
EnsureDeploymentGet(p) ==
    /\ pc[p] = "dep_get"
    /\ IF ~K8sClient
       THEN StepFails(p, "deployment", "k8s client not initialized") /\ UNCHANGED failures
       ELSE \E inject \in InjectChoices :
              /\ Injected(inject)
              /\ IF inject THEN StepFails(p, "deployment", "ServerError")
                 ELSE IF ~deployment.exists THEN GoOn(p, "dep_create", NoObject)
                 ELSE GoOn(p, "dep_update", NoObject)
    /\ GetFrame /\ StepFrame

\* client.Create of the built Deployment
EnsureDeploymentCreate(p) ==
    /\ pc[p] = "dep_create"
    /\ \E inject \in InjectChoices :
         LET out == IF inject THEN ServerError(deployment)
                    ELSE Create(deployment, BuildDeployment(w))
         IN  /\ Injected(inject)
             /\ deployment' = out.res
             /\ Wrote(p, "deployment", "create", deployment, out)
             /\ StepReturns(p, "deployment", out.err, "svc_get")
    /\ UNCHANGED <<configMap, secret, service, ingressRoute>> /\ StepFrame

\* client.Update with the built Deployment, which carries no resourceVersion
EnsureDeploymentUpdate(p) ==
    /\ pc[p] = "dep_update"
    /\ \E inject \in InjectChoices :
         LET out == IF inject THEN ServerError(deployment)
                    ELSE Update(deployment, BuildDeployment(w), 0, TRUE)
         IN  /\ Injected(inject)
             /\ deployment' = out.res
             /\ Wrote(p, "deployment", "update", deployment, out)
             /\ StepReturns(p, "deployment", out.err, "svc_get")
    /\ UNCHANGED <<configMap, secret, service, ingressRoute>> /\ StepFrame

(***************************************************************************)
(* EnsureService                                                           *)
(***************************************************************************)
\* mutant of EnsureServiceGet: the Service is created without looking at the
\* result of the Get
EnsureServiceGetAlwaysCreate(p) ==
    /\ pc[p] = "svc_get"
    /\ IF ~K8sClient
       THEN StepFails(p, "service", "k8s client not initialized") /\ UNCHANGED failures
       ELSE \E inject \in InjectChoices :
              /\ Injected(inject)
              /\ IF inject THEN StepFails(p, "service", "ServerError")
                 ELSE GoOn(p, "svc_create", NoObject)
    /\ GetFrame /\ StepFrame

\* the nil check and client.Get; an existing Service is left as it is
EnsureServiceGet(p) ==
    /\ pc[p] = "svc_get"
    /\ IF ~K8sClient
       THEN StepFails(p, "service", "k8s client not initialized") /\ UNCHANGED failures
       ELSE \E inject \in InjectChoices :
              /\ Injected(inject)
              /\ IF inject THEN StepFails(p, "service", "ServerError")
                 ELSE IF ~service.exists THEN GoOn(p, "svc_create", NoObject)
                 ELSE StepSucceeds(p, "service", "ir_get")
    /\ GetFrame /\ StepFrame

\* client.Create of the built Service
EnsureServiceCreate(p) ==
    /\ pc[p] = "svc_create"
    /\ \E inject \in InjectChoices :
         LET out == IF inject THEN ServerError(service)
                    ELSE Create(service, BuildService(w))
         IN  /\ Injected(inject)
             /\ service' = out.res
             /\ Wrote(p, "service", "create", service, out)
             /\ StepReturns(p, "service", out.err, "ir_get")
    /\ UNCHANGED <<configMap, secret, deployment, ingressRoute>> /\ StepFrame

(***************************************************************************)
(* EnsureIngressRoute                                                      *)
(***************************************************************************)
\* the nil check and client.Get; the resourceVersion of an existing
\* IngressRoute is kept for the update
EnsureIngressRouteGet(p) ==
    /\ pc[p] = "ir_get"
    /\ IF ~DynamicClient
       THEN StepFails(p, "ingressroute", "dynamic client not initialized")
            /\ UNCHANGED failures
       ELSE \E inject \in InjectChoices :
              /\ Injected(inject)
              /\ IF inject THEN StepFails(p, "ingressroute", "ServerError")
                 ELSE IF ~ingressRoute.exists THEN GoOn(p, "ir_create", NoObject)
                 ELSE GoOn(p, "ir_update", Object(ingressRoute.rv, BuildIngressRoute(w)))
    /\ GetFrame /\ StepFrame

\* client.Create of the built IngressRoute
EnsureIngressRouteCreate(p) ==
    /\ pc[p] = "ir_create"
    /\ \E inject \in InjectChoices :
         LET out == IF inject THEN ServerError(ingressRoute)
                    ELSE Create(ingressRoute, BuildIngressRoute(w))
         IN  /\ Injected(inject)
             /\ ingressRoute' = out.res
             /\ Wrote(p, "ingressroute", "create", ingressRoute, out)
             /\ StepReturns(p, "ingressroute", out.err, "report_running")
    /\ UNCHANGED <<configMap, secret, deployment, service>> /\ StepFrame

\* mutant of EnsureIngressRouteUpdate: the built IngressRoute is sent without
\* the resourceVersion that was read, as an unconditional update
EnsureIngressRouteUpdateNoToken(p) ==
    /\ pc[p] = "ir_update"
    /\ \E inject \in InjectChoices :
         LET out == IF inject THEN ServerError(ingressRoute)
                    ELSE Update(ingressRoute, existing[p].body, 0, TRUE)
         IN  /\ Injected(inject)
             /\ ingressRoute' = out.res
             /\ Wrote(p, "ingressroute", "update", ingressRoute, out)
             /\ StepReturns(p, "ingressroute", out.err, "report_running")
    /\ UNCHANGED <<configMap, secret, deployment, service>> /\ StepFrame

\* client.Update of the built IngressRoute under the resourceVersion read
EnsureIngressRouteUpdate(p) ==
    /\ pc[p] = "ir_update"
    /\ \E inject \in InjectChoices :
         LET out == IF inject THEN ServerError(ingressRoute)
                    ELSE Update(ingressRoute, existing[p].body, existing[p].rv, FALSE)
         IN  /\ Injected(inject)
             /\ ingressRoute' = out.res
             /\ Wrote(p, "ingressroute", "update", ingressRoute, out)
             /\ StepReturns(p, "ingressroute", out.err, "report_running")
    /\ UNCHANGED <<configMap, secret, deployment, service>> /\ StepFrame

(***************************************************************************)
(* reconcile after an ensure step that wrote: the report to the WorkerApp  *)
(* is a call of its own, made after the ensure step has returned           *)
(***************************************************************************)
\* the ensure step returned err # nil: log, report Failed, return
reportFailed(p) ==
    /\ pc[p] = "report_failed"
    /\ updateStatus(p, "Failed", results[p][Len(results[p])].err)
    /\ pc' = [pc EXCEPT ![p] = "done"]
    /\ UNCHANGED <<results, existing, writes, failures, clusterVars>> /\ StepFrame

\* EnsureIngressRoute returned nil: log the success, report Running
reportRunning(p) ==
    /\ pc[p] = "report_running"
    /\ updateStatus(p, "Running", "")
    /\ pc' = [pc EXCEPT ![p] = "done"]
    /\ UNCHANGED <<results, existing, writes, failures, clusterVars>> /\ StepFrame

\* one step of a reconcile invocation of worker p
Reconcile(p) ==
    \/ reconcileNil(p)
    \/ reconcile(p)
    \/ EnsureConfigMapGet(p)
    \/ EnsureConfigMapCreate(p)
    \/ EnsureConfigMapUpdate(p)
    \/ EnsureSecretGet(p)
    \/ EnsureSecretCreate(p)
    \/ EnsureSecretUpdate(p)
    \/ EnsureDeploymentGet(p)
    \/ EnsureDeploymentCreate(p)
    \/ EnsureDeploymentUpdate(p)
    \/ EnsureServiceGet(p)
    \/ EnsureServiceCreate(p)
    \/ EnsureIngressRouteGet(p)
    \/ EnsureIngressRouteCreate(p)
    \/ EnsureIngressRouteUpdate(p)
    \/ reportFailed(p)
    \/ reportRunning(p)


\* the first position of each ensure step
EntryPositions == {"cm_get", "sec_get", "dep_get", "svc_get", "ir_get"}

\* the reconcile that calls the five ensure steps as statements, up to the
\* first of them: report Deploying
EnsureCall(p) ==
    /\ pc[p] \in {"idle", "done"}
    /\ invocations[p] < MaxReconciles
    /\ invocations' = [invocations EXCEPT ![p] = @ + 1]
    /\ prev' = [prev EXCEPT ![p] = Outcome(p)]
    /\ results' = [results EXCEPT ![p] = <<>>]
    /\ writes' = [writes EXCEPT ![p] = <<>>]
    /\ status' = [phase |-> "Deploying", message |-> ""]
    /\ reported' = [reported EXCEPT ![p] = <<[phase |-> "Deploying", message |-> ""]>>]
    /\ pc' = [pc EXCEPT ![p] = "cm_get"]
    /\ dropsErrors' = [dropsErrors EXCEPT ![p] = TRUE]
    /\ UNCHANGED <<existing, everRunning, failures, clusterVars, clientVars, jobVars, domainVars,
                   procVars, fnVars>>

\* one step of that reconcile by worker p: the five ensure steps in their
\* order, each called whatever the ones before it returned, and the report
\* of Running after the last
Ensure(p) ==
    \/ EnsureCall(p)
    \/ EnsureConfigMapGet(p)
    \/ EnsureConfigMapCreate(p)
    \/ EnsureConfigMapUpdate(p)
    \/ EnsureSecretGet(p)
    \/ EnsureSecretCreate(p)
    \/ EnsureSecretUpdate(p)
    \/ EnsureDeploymentGet(p)
    \/ EnsureDeploymentCreate(p)
    \/ EnsureDeploymentUpdate(p)
    \/ EnsureServiceGet(p)
    \/ EnsureServiceCreate(p)
    \/ EnsureIngressRouteGet(p)
    \/ EnsureIngressRouteCreate(p)
    \/ EnsureIngressRouteUpdate(p)
    \/ reportRunning(p)


(***************************************************************************)
(* DeleteAll                                                               *)
(***************************************************************************)
\* client.Delete: NotFound when there is no object of that name
Delete(res) ==
    IF res.exists THEN [err |-> "", res |-> NoObject]
    ELSE [err |-> "NotFound", res |-> res]

\* where DeleteAll goes on after the Deletes through K8sClient
AfterK8sDeletes == IF DynamicClient THEN "da_ingressroute" ELSE "deleted"

\* what the steps of DeleteAll leave alone
DeleteAllFrame ==
    /\ UNCHANGED <<existing, results, reported, status, everRunning>>
    /\ StepFrame

\* w.DeleteAll(ctx) is called by worker p: the nil check of K8sClient
DeleteAllCall(p) ==
    /\ pc[p] \in {"idle", "deleted"}
    /\ invocations[p] < MaxReconciles
    /\ invocations' = [invocations EXCEPT ![p] = @ + 1]
    /\ writes' = [writes EXCEPT ![p] = <<>>]
    /\ pc' = [pc EXCEPT ![p] = IF K8sClient THEN "da_deployment" ELSE AfterK8sDeletes]
    /\ UNCHANGED <<existing, results, reported, status, everRunning, prev, dropsErrors,
                   failures, clusterVars, clientVars, jobVars, domainVars, procVars, fnVars>>

\* mutant of DeleteAllStep: DeleteAll returns at the first Delete that fails
DeleteAllStepStopsOnError(p, kind, res, resNext, next) ==
    \E inject \in InjectChoices :
        LET out == IF inject THEN ServerError(res) ELSE Delete(res)
        IN  /\ Injected(inject)
            /\ resNext = out.res
            /\ Wrote(p, kind, "delete", res, out)
            /\ pc' = [pc EXCEPT ![p] = IF out.err = "" THEN next ELSE "deleted"]

\* one Delete call of DeleteAll on the resource `res`, whose result is dropped
DeleteAllStep(p, kind, res, resNext, next) ==
    \E inject \in InjectChoices :
        LET out == IF inject THEN ServerError(res) ELSE Delete(res)
        IN  /\ Injected(inject)
            /\ resNext = out.res
            /\ Wrote(p, kind, "delete", res, out)
            /\ pc' = [pc EXCEPT ![p] = next]

DeleteAllDeployment(p) ==
    /\ pc[p] = "da_deployment"
    /\ DeleteAllStep(p, "deployment", deployment, deployment', "da_service")
    /\ UNCHANGED <<configMap, secret, service, ingressRoute>> /\ DeleteAllFrame

DeleteAllService(p) ==
    /\ pc[p] = "da_service"
    /\ DeleteAllStep(p, "service", service, service', "da_configmap")
    /\ UNCHANGED <<configMap, secret, deployment, ingressRoute>> /\ DeleteAllFrame

DeleteAllConfigMap(p) ==
    /\ pc[p] = "da_configmap"
    /\ DeleteAllStep(p, "configmap", configMap, configMap', "da_secret")
    /\ UNCHANGED <<secret, deployment, service, ingressRoute>> /\ DeleteAllFrame

DeleteAllSecret(p) ==
    /\ pc[p] = "da_secret"
    /\ DeleteAllStep(p, "secret", secret, secret', AfterK8sDeletes)
    /\ UNCHANGED <<configMap, deployment, service, ingressRoute>> /\ DeleteAllFrame

\* the Delete through DynamicClient, after which DeleteAll returns
DeleteAllIngressRoute(p) ==
    /\ pc[p] = "da_ingressroute"
    /\ DeleteAllStep(p, "ingressroute", ingressRoute, ingressRoute', "deleted")
    /\ UNCHANGED <<configMap, secret, deployment, service>> /\ DeleteAllFrame

\* one step of a DeleteAll call of worker p
DeleteAll(p) ==
    \/ DeleteAllCall(p)
    \/ DeleteAllDeployment(p)
    \/ DeleteAllService(p)
    \/ DeleteAllConfigMap(p)
    \/ DeleteAllSecret(p)
    \/ DeleteAllIngressRoute(p)


(***************************************************************************)
(* syncEnvJob and syncSecretJob                                            *)
(***************************************************************************)
\* number of sync jobs the Processor executes
MaxJobs == 2

\* the Data a sync job may carry: any user-chosen keys, reserved or not
JobDatas ==
    {[k \in T |-> UserVal] : T \in {{}, UserKeys, {"RAYSAIL_UID"} \cup UserKeys, Keys}}

JobFrame == UNCHANGED <<clientVars, status, everRunning, reconcileVars, domainVars, procVars,
                        fnVars, deploy>>

\* a worker of the Processor takes a syncEnvJob and calls Do()
SubmitSyncEnv ==
    /\ jobPc["env"] \in {"idle", "done"}
    /\ jobsRun < MaxJobs
    /\ \E data \in JobDatas : jobData' = [jobData EXCEPT !["env"] = data]
    /\ jobPc' = [jobPc EXCEPT !["env"] = "get"]
    /\ jobErr' = [jobErr EXCEPT !["env"] = ""]
    /\ jobsRun' = jobsRun + 1
    /\ UNCHANGED <<jobObj, workerStatus, failures, clusterVars>> /\ JobFrame

\* syncEnvJob.Do up to the Update: nil check, Get, cm.Data = j.Data
syncEnvJobGet ==
    /\ jobPc["env"] = "get"
    /\ IF ~K8sClient
       THEN jobPc' = [jobPc EXCEPT !["env"] = "done"] /\ UNCHANGED <<jobObj, failures>>
       ELSE \E inject \in InjectChoices :
              /\ Injected(inject)
              /\ IF inject \/ ~configMap.exists
                 THEN jobPc' = [jobPc EXCEPT !["env"] = "done"] /\ UNCHANGED jobObj
                 ELSE /\ jobPc' = [jobPc EXCEPT !["env"] = "update"]
                      /\ jobObj' = [jobObj EXCEPT !["env"] =
                                      Object(configMap.rv, jobData["env"])]
    /\ UNCHANGED <<jobData, jobErr, jobsRun, workerStatus, clusterVars>> /\ JobFrame

\* syncEnvJob.Do: client.Update of the object that was read
syncEnvJobUpdate ==
    /\ jobPc["env"] = "update"
    /\ \E inject \in InjectChoices :
         LET out == IF inject THEN ServerError(configMap)
                    ELSE Update(configMap, jobObj["env"].body, jobObj["env"].rv, TRUE)
         IN  /\ Injected(inject)
             /\ configMap' = out.res
             /\ rvClock' = IF out.res # configMap THEN rvClock + 1 ELSE rvClock
             /\ jobErr' = [jobErr EXCEPT !["env"] = out.err]
    /\ jobPc' = [jobPc EXCEPT !["env"] = "status"]
    /\ jobObj' = [jobObj EXCEPT !["env"] = NoObject]
    /\ UNCHANGED <<jobData, jobsRun, workerStatus, secret, deployment, service, ingressRoute>>
    /\ JobFrame

\* syncEnvJob.Do after the Update: dblayer.UpdateWorkerStatus with "error"
\* or "active", and the return of the wrapped error or nil
syncEnvJobStatus ==
    /\ jobPc["env"] = "status"
    /\ workerStatus' = IF jobErr["env"] = "" THEN "active" ELSE "error"
    /\ jobErr' = [jobErr EXCEPT !["env"] = IF @ = "" THEN "" ELSE "sync env configmap: " \o @]
    /\ jobPc' = [jobPc EXCEPT !["env"] = "done"]
    /\ UNCHANGED <<jobData, jobObj, jobsRun, failures, clusterVars>>
    /\ JobFrame

\* a worker of the Processor takes a syncSecretJob and calls Do()
SubmitSyncSecret ==
    /\ jobPc["secret"] \in {"idle", "done"}
    /\ jobsRun < MaxJobs
    /\ \E data \in JobDatas : jobData' = [jobData EXCEPT !["secret"] = data]
    /\ jobPc' = [jobPc EXCEPT !["secret"] = "get"]
    /\ jobErr' = [jobErr EXCEPT !["secret"] = ""]
    /\ jobsRun' = jobsRun + 1
    /\ UNCHANGED <<jobObj, workerStatus, failures, clusterVars>> /\ JobFrame

\* syncSecretJob.Do up to the Update: nil check, Get, sec.Data = bytes of j.Data
syncSecretJobGet ==
    /\ jobPc["secret"] = "get"
    /\ IF ~K8sClient
       THEN jobPc' = [jobPc EXCEPT !["secret"] = "done"] /\ UNCHANGED <<jobObj, failures>>
       ELSE \E inject \in InjectChoices :
              /\ Injected(inject)
              /\ IF inject \/ ~secret.exists
                 THEN jobPc' = [jobPc EXCEPT !["secret"] = "done"] /\ UNCHANGED jobObj
                 ELSE /\ jobPc' = [jobPc EXCEPT !["secret"] = "update"]
                      /\ jobObj' = [jobObj EXCEPT !["secret"] =
                                      Object(secret.rv, jobData["secret"])]
    /\ UNCHANGED <<jobData, jobErr, jobsRun, workerStatus, clusterVars>> /\ JobFrame

\* syncSecretJob.Do: client.Update of the object that was read
syncSecretJobUpdate ==
    /\ jobPc["secret"] = "update"
    /\ \E inject \in InjectChoices :
         LET out == IF inject THEN ServerError(secret)
                    ELSE Update(secret, jobObj["secret"].body, jobObj["secret"].rv, TRUE)
         IN  /\ Injected(inject)
             /\ secret' = out.res
             /\ rvClock' = IF out.res # secret THEN rvClock + 1 ELSE rvClock
             /\ jobErr' = [jobErr EXCEPT !["secret"] = out.err]
    /\ jobPc' = [jobPc EXCEPT !["secret"] = "status"]
    /\ jobObj' = [jobObj EXCEPT !["secret"] = NoObject]
    /\ UNCHANGED <<jobData, jobsRun, workerStatus, configMap, deployment, service, ingressRoute>>
    /\ JobFrame

\* syncSecretJob.Do after the Update: dblayer.UpdateWorkerStatus with "error"
\* or "active", and the return of the wrapped error or nil
syncSecretJobStatus ==
    /\ jobPc["secret"] = "status"
    /\ workerStatus' = IF jobErr["secret"] = "" THEN "active" ELSE "error"
    /\ jobErr' = [jobErr EXCEPT !["secret"] = IF @ = "" THEN "" ELSE "sync secret: " \o @]
    /\ jobPc' = [jobPc EXCEPT !["secret"] = "done"]
    /\ UNCHANGED <<jobData, jobObj, jobsRun, failures, clusterVars>>
    /\ JobFrame

SyncJobs ==
    \/ SubmitSyncEnv
    \/ syncEnvJobGet
    \/ syncEnvJobUpdate
    \/ syncEnvJobStatus
    \/ SubmitSyncSecret
    \/ syncSecretJobGet
    \/ syncSecretJobUpdate
    \/ syncSecretJobStatus


(***************************************************************************)
(* deployWorkerJob.Do: every call of dblayer and of the controller is a    *)
(* step, and every call may fail: those whose error Do() looks at, and the *)
(* two status writes whose result it drops.                                *)
(***************************************************************************)
\* the statuses a deploy version and a worker may have when the job runs
VersionStatuses == {"loading", "success", "error"}
WorkerStatuses == {"loading", "active", "error"}

\* no deploy job is executed
NoDeploy == [pc |-> "idle"]

\* a deploy job for version versionID at the call of Do(): the rows of the
\* version and of its worker as they are (had) and as Do() leaves them, the
\* call whose error Do() saw, the status writes it issued (each with the
\* status and whether the database applied it), whether the WorkerApp was
\* created, and what Do() returned
NewDeploy(versionID, version, worker) ==
    [pc |-> "get", versionID |-> versionID,
     had |-> [version |-> version, worker |-> worker],
     version |-> version, worker |-> worker,
     failed |-> "", versionWrites |-> <<>>, workerWrites |-> <<>>,
     created |-> FALSE, err |-> ""]

DeployFrame ==
    UNCHANGED <<clientVars, clusterVars, status, everRunning, reconcileVars, failures,
                jobPc, jobData, jobObj, jobErr, jobsRun, workerStatus, domainVars,
                procVars, fnVars>>

\* dblayer.UpdateDeployVersionStatus(j.VersionID, st, ...) on the job d: the
\* row of the version gets the status when the write is applied, and keeps
\* the one it has when the write fails
UpdateDeployVersionStatus(d, st, applied) ==
    [d EXCEPT !.version = IF applied THEN st ELSE @,
              !.versionWrites = Append(@, [status |-> st, applied |-> applied])]

\* dblayer.UpdateWorkerStatus(w.WID, st) on the job d, applied or failed
UpdateWorkerStatus(d, st, applied) ==
    [d EXCEPT !.worker = IF applied THEN st ELSE @,
              !.workerWrites = Append(@, [status |-> st, applied |-> applied])]

\* dblayer.GetDeployVersionWithWorker
deployWorkerJobGet ==
    /\ deploy.pc = "get"
    /\ \E fails \in BOOLEAN :
         deploy' = IF fails
                   THEN [deploy EXCEPT !.pc = "get_failed", !.failed = "get"]
                   ELSE [deploy EXCEPT !.pc = "create"]
    /\ DeployFrame

\* the read failed: the version is marked error, the result of that write
\* is dropped, and Do() returns the error of the read
deployWorkerJobGetFailed ==
    /\ deploy.pc = "get_failed"
    /\ \E applied \in BOOLEAN :
         deploy' = [UpdateDeployVersionStatus(deploy, "error", applied)
                      EXCEPT !.pc = "returned", !.err = "get version failed"]
    /\ DeployFrame

\* controller.CreateWorkerAppCR
deployWorkerJobCreateCR ==
    /\ deploy.pc = "create"
    /\ \E fails \in BOOLEAN :
         deploy' = IF fails
                   THEN [deploy EXCEPT !.pc = "mark_version", !.failed = "create"]
                   ELSE [deploy EXCEPT !.pc = "success", !.created = TRUE]
    /\ DeployFrame

\* the creation failed: the version is marked error, the result of that
\* write is dropped
deployWorkerJobMarkVersion ==
    /\ deploy.pc = "mark_version"
    /\ \E applied \in BOOLEAN :
         deploy' = [UpdateDeployVersionStatus(deploy, "error", applied)
                      EXCEPT !.pc = "mark_worker"]
    /\ DeployFrame

\* mutant of deployWorkerJobMarkWorker: the worker keeps its status
deployWorkerJobMarkWorkerSkipped ==
    /\ deploy.pc = "mark_worker"
    /\ deploy' = [deploy EXCEPT !.pc = "returned", !.err = "create CR failed"]
    /\ DeployFrame

\* the creation failed: the worker is marked error, the result of that write
\* is dropped, and Do() returns the error of the creation
deployWorkerJobMarkWorker ==
    /\ deploy.pc = "mark_worker"
    /\ \E applied \in BOOLEAN :
         deploy' = [UpdateWorkerStatus(deploy, "error", applied)
                      EXCEPT !.pc = "returned", !.err = "create CR failed"]
    /\ DeployFrame

\* dblayer.DeployVersionSuccess(j.VersionID, w.ID): a failure is logged only,
\* and Do() returns nil.  The call marks the version success; it is given the
\* worker's id too, and leaves the worker's status as it is or active
deployWorkerJobSuccess ==
    /\ deploy.pc = "success"
    /\ \E fails \in BOOLEAN, worker \in {deploy.worker, "active"} :
         deploy' = IF fails
                   THEN [UpdateDeployVersionStatus(deploy, "success", FALSE)
                           EXCEPT !.pc = "returned", !.failed = "success"]
                   ELSE [UpdateDeployVersionStatus(deploy, "success", TRUE)
                           EXCEPT !.pc = "returned", !.worker = worker]
    /\ DeployFrame

\* one step of Do() of the deploy job
deployWorkerJob ==
    \/ deployWorkerJobGet
    \/ deployWorkerJobGetFailed
    \/ deployWorkerJobCreateCR
    \/ deployWorkerJobMarkVersion
    \/ deployWorkerJobMarkWorker
    \/ deployWorkerJobSuccess


(***************************************************************************)
(* Custom-domain claims and their verification run                         *)
(***************************************************************************)
\* the attempt budget of StartVerification (for i := range 12)
MaxAttempts == 12
\* the seconds StartVerification sleeps before every attempt
SleepSeconds == 5

DomainStatusPending == "pending"
DomainStatusSuccess == "success"
DomainStatusError == "error"

\* the claims of the model, by claim identifier (CDID), with the domain and
\* the target the user entered and the token generateVerifyToken drew
Claims == {"c1", "c2"}

ClaimDomain(c) == IF c = "c1" THEN "example.com" ELSE "shop.example.com"

ClaimTarget(c) == IF c = "c1" THEN "app.svc.example.net" ELSE "edge.example.net."

ClaimToken(c) == "token-" \o c

\* the owner (cd.UserUID) of a claim
ClaimUserUID(c) == IF c = "c1" THEN "u1" ELSE "u2"

\* fmt.Sprintf("custom-domain-%s", cd.CDID)
customDomainName(cdid) == "custom-domain-" \o cdid

\* fmt.Sprintf("custom-domain-tls-%s", cd.CDID)
tlsSecretName(cdid) == "custom-domain-tls-" \o cdid

\* the labels CreateIngressRoute puts on each of the three objects
CustomDomainLabels(userUID) == ("app" :> "custom-domain") @@ ("user-uid" :> userUID)

\* mutant of CustomDomainObject: the objects are labelled as custom-domain
\* objects only, without the owner
CustomDomainObjectNoOwner(c, kind) ==
    [kind |-> kind, name |-> customDomainName(c),
     labels |-> ("app" :> "custom-domain"),
     spec |-> IF kind = "service"
              THEN [type |-> "ExternalName", externalName |-> ClaimTarget(c)]
              ELSE IF kind = "certificate"
              THEN [secretName |-> tlsSecretName(c), dnsNames |-> <<ClaimDomain(c)>>,
                    issuerRef |-> [name |-> "zerossl-issuer", kind |-> "ClusterIssuer"]]
              ELSE [entryPoints |-> <<"websecure">>, host |-> ClaimDomain(c),
                    service |-> customDomainName(c), secretName |-> tlsSecretName(c)]]

\* the object CreateIngressRoute builds for the resource `kind` of claim c:
\* the ExternalName Service to the target, the Certificate for the domain
\* from the issuer zerossl-issuer, or the IngressRoute for the host on the
\* entry point websecure
CustomDomainObject(c, kind) ==
    [kind |-> kind, name |-> customDomainName(c),
     labels |-> CustomDomainLabels(ClaimUserUID(c)),
     spec |-> IF kind = "service"
              THEN [type |-> "ExternalName", externalName |-> ClaimTarget(c)]
              ELSE IF kind = "certificate"
              THEN [secretName |-> tlsSecretName(c), dnsNames |-> <<ClaimDomain(c)>>,
                    issuerRef |-> [name |-> "zerossl-issuer", kind |-> "ClusterIssuer"]]
              ELSE [entryPoints |-> <<"websecure">>, host |-> ClaimDomain(c),
                    service |-> customDomainName(c), secretName |-> tlsSecretName(c)]]

\* fmt.Sprintf("_combinator-verify.%s", domain)
txtName(domain) == "_combinator-verify." \o domain

\* fmt.Sprintf("combinator-verify=%s", token)
txtValue(token) == "combinator-verify=" \o token

TXTName(c) == txtName(ClaimDomain(c))

TXTValue(c) == txtValue(ClaimToken(c))

\* the row dblayer.CreateCustomDomain stores
CustomDomainRow(cdid, userUID, domain, target, name, value, st) ==
    [cdid |-> cdid, userUID |-> userUID, domain |-> domain, target |-> target,
     txtName |-> name, txtValue |-> value, status |-> st]

\* no row stored, no claim returned
Nil == [nil |-> TRUE]

\* mutant of NewCustomDomainCall: the record name is not bound to the domain
\* and the row is stored without a status
NewCustomDomainCallUnbound(userUID, domain, target, random, dbFails) ==
    LET cdid == SubSeq(random[1], 1, 8)
        name == "_combinator-verify."
        value == txtValue(random[2])
    IN  IF dbFails
        THEN [applied |-> TRUE, err |-> "create failed", cd |-> Nil, row |-> Nil]
        ELSE [applied |-> TRUE, err |-> "",
              cd |-> [CDID |-> cdid, Domain |-> domain, Target |-> target,
                      TXTName |-> name, TXTValue |-> value,
                      Status |-> DomainStatusPending, UserUID |-> userUID],
              row |-> CustomDomainRow(cdid, userUID, domain, target, name, value, "")]

\* NewCustomDomain(userUID, domain, target), with the two results of
\* generateVerifyToken (32 hexadecimal digits each) and whether
\* dblayer.CreateCustomDomain fails: the error returned, the claim returned
\* and the row stored
NewCustomDomainCall(userUID, domain, target, random, dbFails) ==
    LET cdid == SubSeq(random[1], 1, 8)
        token == random[2]
        name == txtName(domain)
        value == txtValue(token)
    IN  IF dbFails
        THEN [applied |-> TRUE, err |-> "create failed", cd |-> Nil, row |-> Nil]
        ELSE [applied |-> TRUE, err |-> "",
              cd |-> [CDID |-> cdid, Domain |-> domain, Target |-> target,
                      TXTName |-> name, TXTValue |-> value,
                      Status |-> DomainStatusPending, UserUID |-> userUID],
              row |-> CustomDomainRow(cdid, userUID, domain, target, name, value,
                                      DomainStatusPending)]

\* results of a DNS lookup: an error, or the records found
LookupError == [err |-> TRUE, records |-> <<>>]

Found(records) == [err |-> FALSE, records |-> records]

\* what net.LookupTXT(cd.TXTName) may return
TXTLookups(c) ==
    { LookupError, Found(<<>>), Found(<<TXTValue(c)>>),
      Found(<<"v=spf1 -all", TXTValue(c)>>), Found(<<"combinator-verify=other">>) }

\* what net.LookupCNAME(cd.Domain) may return (one name)
CNAMELookups(c) ==
    { LookupError, Found(<<"app.svc.example.net.">>), Found(<<"app.svc.example.net">>),
      Found(<<"edge.example.net.">>), Found(<<"edge.example.net">>), Found(<<"">>) }

\* slices.Contains(records, value)
Contains(records, value) == \E i \in 1..Len(records) : records[i] = value

\* CustomDomain.VerifyTXT on the result of the lookup
VerifyTXT(c, lookup) ==
    IF lookup.err THEN FALSE
    ELSE Contains(lookup.records, TXTValue(c))

\* removes one trailing dot
TrimDot(name) ==
    IF Len(name) > 0 /\ SubSeq(name, Len(name), Len(name)) = "."
    THEN SubSeq(name, 1, Len(name) - 1)
    ELSE name

\* mutant of VerifyCNAME: the dot is removed from the lookup result only, and
\* the result is compared with the target as the user entered it
VerifyCNAMEExactTarget(c, lookup) ==
    IF lookup.err THEN FALSE
    ELSE TrimDot(lookup.records[1]) = ClaimTarget(c)

\* CustomDomain.VerifyCNAME on the result of the lookup
VerifyCNAME(c, lookup) ==
    IF lookup.err THEN FALSE
    ELSE LET cname == TrimDot(lookup.records[1])
             targetWithoutDot == TrimDot(ClaimTarget(c))
         IN  cname = targetWithoutDot \/ cname = ClaimTarget(c)

\* dblayer.UpdateCustomDomainStatus(cdid, status): updates the row if there is one
UpdateCustomDomainStatus(c, st) ==
    /\ dbStatus' = [dbStatus EXCEPT ![c] = IF @ = "none" THEN @ ELSE st]
    /\ dbWrites' = [dbWrites EXCEPT ![c] = Append(@, st)]

DomainFrame == UNCHANGED <<clientVars, clusterVars, status, everRunning, reconcileVars,
                           jobVars, deleteVars, dnsVars, procVars, fnVars>>

\* NewCustomDomain: the claim is persisted as pending
NewCustomDomain(c) ==
    /\ vpc[c] = "none"
    /\ dbStatus' = [dbStatus EXCEPT ![c] = DomainStatusPending]
    /\ cdStatus' = [cdStatus EXCEPT ![c] = DomainStatusPending]
    /\ vpc' = [vpc EXCEPT ![c] = "created"]
    /\ UNCHANGED <<attempt, elapsed, attemptLog, provisioned, cdResources, dbWrites,
                   failures, createCalls, createErr>>
    /\ DomainFrame

\* StartVerification: the goroutine of the claim starts
StartVerification(c) ==
    /\ vpc[c] = "created"
    /\ vpc' = [vpc EXCEPT ![c] = "sleep"]
    /\ UNCHANGED <<dbStatus, cdStatus, attempt, elapsed, attemptLog, provisioned,
                   cdResources, dbWrites, failures, createCalls, createErr>>
    /\ DomainFrame

\* time.Sleep(5 * time.Second) at the head of the loop body
VerificationSleep(c) ==
    /\ vpc[c] = "sleep"
    /\ elapsed' = [elapsed EXCEPT ![c] = @ + SleepSeconds]
    /\ vpc' = [vpc EXCEPT ![c] = "check"]
    /\ UNCHANGED <<dbStatus, cdStatus, attempt, attemptLog, provisioned, cdResources,
                   dbWrites, failures, createCalls, createErr>>
    /\ DomainFrame

\* mutant of NextPosition: the loop runs one round too many
NextPositionOffByOne(i, ok) ==
    IF ok THEN "create_service"
    ELSE IF i <= MaxAttempts THEN "sleep"
    ELSE "exhausted"

\* mutant of NextPosition: the return after a successful attempt is missing
NextPositionNoReturn(i, ok) ==
    IF i < MaxAttempts THEN "sleep"
    ELSE IF ok THEN "create_service"
    ELSE "exhausted"

\* where the loop of StartVerification goes after attempt number i (1-based)
\* whose checks ended with `ok`
NextPosition(i, ok) ==
    IF ok THEN "create_service"
    ELSE IF i < MaxAttempts THEN "sleep"
    ELSE "exhausted"

\* mutant of Checks: the two checks are joined by && in the condition, so
\* that VerifyCNAME is called only after VerifyTXT returned true
ChecksShortCircuit(c, txt, cn) ==
    LET txtVerified == VerifyTXT(c, txt)
    IN  IF txtVerified
        THEN [calls |-> <<"VerifyTXT", "VerifyCNAME">>, txtVerified |-> txtVerified,
              cnameVerified |-> VerifyCNAME(c, cn)]
        ELSE [calls |-> <<"VerifyTXT">>, txtVerified |-> txtVerified,
              cnameVerified |-> FALSE]

\* the two checks of one attempt, on what the two lookups return: the calls
\* made and their results
Checks(c, txt, cn) ==
    [calls |-> <<"VerifyTXT", "VerifyCNAME">>,
     txtVerified |-> VerifyTXT(c, txt),
     cnameVerified |-> VerifyCNAME(c, cn)]

\* the body of the loop of StartVerification for attempt number i (1-based)
\* up to the call of CreateIngressRoute: the checks, cd.Status after them,
\* the statuses persisted, and where the loop goes on
AttemptBody(c, i, txt, cn) ==
    LET checks == Checks(c, txt, cn)
        ok == checks.txtVerified /\ checks.cnameVerified
    IN  [applied |-> TRUE, checks |-> checks, ok |-> ok,
         status |-> IF ok THEN DomainStatusSuccess ELSE DomainStatusPending,
         persisted |-> IF ok THEN <<DomainStatusSuccess>> ELSE <<>>,
         next |-> NextPosition(i, ok)]

\* one attempt: both lookups, then success (status written, provisioning
\* entered), another round, or the end of the loop
VerificationAttempt(c) ==
    /\ vpc[c] = "check"
    /\ \E txt \in TXTLookups(c), cn \in CNAMELookups(c) :
         LET body == AttemptBody(c, attempt[c] + 1, txt, cn)
             ok == body.ok
         IN  /\ attempt' = [attempt EXCEPT ![c] = @ + 1]
             /\ attemptLog' = [attemptLog EXCEPT ![c] =
                                 Append(@, [at |-> elapsed[c], ok |-> ok])]
             /\ vpc' = [vpc EXCEPT ![c] = body.next]
             /\ IF ok
                THEN /\ cdStatus' = [cdStatus EXCEPT ![c] = body.status]
                     /\ UpdateCustomDomainStatus(c, DomainStatusSuccess)
                     /\ provisioned' = [provisioned EXCEPT ![c] = @ + 1]
                ELSE UNCHANGED <<cdStatus, dbStatus, dbWrites, provisioned>>
    /\ UNCHANGED <<elapsed, cdResources, failures, createCalls, createErr>>
    /\ DomainFrame

\* mutant of VerificationExhausted: the run waits for a cancellation signal
\* instead of ending
VerificationExhaustedAwaitsCancel(c) ==
    /\ vpc[c] = "exhausted"
    /\ UNCHANGED vars

\* after the loop: the claim is marked error
VerificationExhausted(c) ==
    /\ vpc[c] = "exhausted"
    /\ cdStatus' = [cdStatus EXCEPT ![c] = DomainStatusError]
    /\ UpdateCustomDomainStatus(c, DomainStatusError)
    /\ vpc' = [vpc EXCEPT ![c] = "done"]
    /\ UNCHANGED <<attempt, elapsed, attemptLog, provisioned, cdResources, failures,
                   createCalls, createErr>>
    /\ DomainFrame

\* mutant of ProvisioningFailed: the claim is put back to pending
ProvisioningFailedBackToPending(c) ==
    /\ vpc[c] = "create_failed"
    /\ cdStatus' = [cdStatus EXCEPT ![c] = DomainStatusPending]
    /\ UpdateCustomDomainStatus(c, DomainStatusPending)
    /\ vpc' = [vpc EXCEPT ![c] = "done"]
    /\ UNCHANGED <<attempt, elapsed, attemptLog, provisioned, cdResources, failures,
                   createCalls, createErr>>
    /\ DomainFrame

\* CreateIngressRoute has returned an error: StartVerification logs it and
\* marks the claim error, in memory and in the database
ProvisioningFailed(c) ==
    /\ vpc[c] = "create_failed"
    /\ cdStatus' = [cdStatus EXCEPT ![c] = DomainStatusError]
    /\ UpdateCustomDomainStatus(c, DomainStatusError)
    /\ vpc' = [vpc EXCEPT ![c] = "done"]
    /\ UNCHANGED <<attempt, elapsed, attemptLog, provisioned, cdResources, failures,
                   createCalls, createErr>>
    /\ DomainFrame

\* CreateIngressRoute has not returned (or was not called)
NotReturned == "not returned"

\* the error CreateIngressRoute wraps around a failed Create of `kind`
CreateFailed(kind) == "create " \o kind \o " failed"

\* mutant of CreateStep: a failed Create is logged and the next one is attempted
CreateStepGoesOn(c, kind, next) ==
    \E inject \in InjectChoices :
        /\ Injected(inject)
        /\ LET failed == inject \/ kind \in cdResources[c]
           IN  /\ createCalls' = [createCalls EXCEPT ![c] =
                                    Append(@, [kind |-> kind, failed |-> failed,
                                               object |-> CustomDomainObject(c, kind)])]
               /\ cdResources' = [cdResources EXCEPT ![c] =
                                    IF failed THEN @ ELSE @ \cup {kind}]
               /\ vpc' = [vpc EXCEPT ![c] = next]
               /\ createErr' = [createErr EXCEPT ![c] =
                                  IF next = "done" THEN "" ELSE @]
               /\ UNCHANGED <<cdStatus, dbStatus, dbWrites>>

\* mutant of CreateStep: a failed Create rolls back the resources the call
\* created before it
CreateStepRollsBack(c, kind, next) ==
    \E inject \in InjectChoices :
        /\ Injected(inject)
        /\ LET failed == inject \/ kind \in cdResources[c]
           IN  /\ createCalls' = [createCalls EXCEPT ![c] =
                                    Append(@, [kind |-> kind, failed |-> failed,
                                               object |-> CustomDomainObject(c, kind)])]
               /\ IF failed
                  THEN /\ createErr' = [createErr EXCEPT ![c] = CreateFailed(kind)]
                       /\ vpc' = [vpc EXCEPT ![c] = "create_failed"]
                       /\ cdResources' = [cdResources EXCEPT ![c] = {}]
                  ELSE /\ cdResources' = [cdResources EXCEPT ![c] = @ \cup {kind}]
                       /\ vpc' = [vpc EXCEPT ![c] = next]
                       /\ createErr' = [createErr EXCEPT ![c] =
                                          IF next = "done" THEN "" ELSE @]
               /\ UNCHANGED <<cdStatus, dbStatus, dbWrites>>

\* one Create call of CreateIngressRoute for the resource `kind` of claim c:
\* on an error CreateIngressRoute returns it wrapped, which StartVerification
\* has in hand and has not recorded yet, and after the last Create it
\* returns nil
CreateStep(c, kind, next) ==
    \E inject \in InjectChoices :
        /\ Injected(inject)
        /\ LET failed == inject \/ kind \in cdResources[c]
           IN  /\ createCalls' = [createCalls EXCEPT ![c] =
                                    Append(@, [kind |-> kind, failed |-> failed,
                                               object |-> CustomDomainObject(c, kind)])]
               /\ IF failed
                  THEN /\ createErr' = [createErr EXCEPT ![c] = CreateFailed(kind)]
                       /\ vpc' = [vpc EXCEPT ![c] = "create_failed"]
                       /\ UNCHANGED cdResources
                  ELSE /\ cdResources' = [cdResources EXCEPT ![c] = @ \cup {kind}]
                       /\ vpc' = [vpc EXCEPT ![c] = next]
                       /\ createErr' = [createErr EXCEPT ![c] =
                                          IF next = "done" THEN "" ELSE @]
               /\ UNCHANGED <<cdStatus, dbStatus, dbWrites>>

\* CreateIngressRoute: the nil check and the ExternalName Service
CreateIngressRouteService(c) ==
    /\ vpc[c] = "create_service"
    /\ IF ~DynamicClient \/ ~K8sClient
       THEN /\ createErr' = [createErr EXCEPT ![c] = "k8s client not initialized"]
            /\ vpc' = [vpc EXCEPT ![c] = "create_failed"]
            /\ UNCHANGED <<failures, createCalls, cdResources, cdStatus, dbStatus, dbWrites>>
       ELSE CreateStep(c, "service", "create_certificate")
    /\ UNCHANGED <<attempt, elapsed, attemptLog, provisioned>>
    /\ DomainFrame

\* CreateIngressRoute: the cert-manager Certificate
CreateIngressRouteCertificate(c) ==
    /\ vpc[c] = "create_certificate"
    /\ CreateStep(c, "certificate", "create_ingressroute")
    /\ UNCHANGED <<attempt, elapsed, attemptLog, provisioned>>
    /\ DomainFrame

\* CreateIngressRoute: the IngressRoute, after which it returns nil
CreateIngressRouteRoute(c) ==
    /\ vpc[c] = "create_ingressroute"
    /\ CreateStep(c, "ingressroute", "done")
    /\ UNCHANGED <<attempt, elapsed, attemptLog, provisioned>>
    /\ DomainFrame

\* the frame of the steps of DeleteCustomDomain
DeleteFrame ==
    UNCHANGED <<clientVars, clusterVars, status, everRunning, reconcileVars, jobVars,
                cdStatus, vpc, attempt, elapsed, attemptLog, provisioned, dbWrites,
                createCalls, createErr, dnsVars, procVars, fnVars>>

\* mutant of DeleteCustomDomainRecord: a failed removal of the record is
\* dropped, and the sub-resources are deleted all the same
DeleteCustomDomainRecordGoesOn(c) ==
    /\ dpc[c] = "idle"
    /\ dbStatus[c] # "none"
    /\ delCall' = [delCall EXCEPT ![c] = [vpc |-> vpc[c], resources |-> cdResources[c]]]
    /\ \E inject \in InjectChoices :
         /\ Injected(inject)
         /\ dbStatus' = [dbStatus EXCEPT ![c] = IF inject THEN @ ELSE "none"]
         /\ dpc' = [dpc EXCEPT ![c] = "del_service"]
         /\ UNCHANGED delErr
    /\ UNCHANGED <<cdResources, delLog>>
    /\ DeleteFrame

\* DeleteCustomDomain up to the removal of the record: the result of
\* GetCustomDomain is dropped, and an error of dblayer.DeleteCustomDomain is
\* returned before any sub-resource is touched
DeleteCustomDomainRecord(c) ==
    /\ dpc[c] = "idle"
    /\ dbStatus[c] # "none"
    /\ delCall' = [delCall EXCEPT ![c] = [vpc |-> vpc[c], resources |-> cdResources[c]]]
    /\ \E inject \in InjectChoices :
         /\ Injected(inject)
         /\ IF inject
            THEN /\ delErr' = [delErr EXCEPT ![c] = "delete failed"]
                 /\ dpc' = [dpc EXCEPT ![c] = "returned"]
                 /\ UNCHANGED dbStatus
            ELSE /\ dbStatus' = [dbStatus EXCEPT ![c] = "none"]
                 /\ dpc' = [dpc EXCEPT ![c] = "del_service"]
                 /\ UNCHANGED delErr
    /\ UNCHANGED <<cdResources, delLog>>
    /\ DeleteFrame

\* mutant of DeleteStep: the error of a failed deletion is returned
DeleteStepReturnsError(c, kind, client, next) ==
    /\ IF ~client
       THEN /\ dpc' = [dpc EXCEPT ![c] = next]
            /\ UNCHANGED <<cdResources, delLog, failures, delErr>>
       ELSE \E inject \in InjectChoices :
              /\ Injected(inject)
              /\ LET res == IF inject THEN "error"
                            ELSE IF kind \in cdResources[c] THEN "" ELSE "not found"
                 IN  /\ delLog' = [delLog EXCEPT ![c] =
                                     Append(@, [kind |-> kind, err |-> res])]
                     /\ cdResources' = [cdResources EXCEPT ![c] =
                                          IF res = "" THEN @ \ {kind} ELSE @]
                     /\ dpc' = [dpc EXCEPT ![c] = IF res = "" THEN next ELSE "returned"]
                     /\ delErr' = [delErr EXCEPT ![c] = IF res = "" THEN @ ELSE res]
    /\ UNCHANGED <<dbStatus, delCall>>
    /\ DeleteFrame

\* one Delete call of DeleteCustomDomain for the resource `kind` of claim c,
\* skipped when its client is nil; the result of the call is dropped
DeleteStep(c, kind, client, next) ==
    /\ dpc' = [dpc EXCEPT ![c] = next]
    /\ IF ~client
       THEN UNCHANGED <<cdResources, delLog, failures>>
       ELSE \E inject \in InjectChoices :
              /\ Injected(inject)
              /\ LET res == IF inject THEN "error"
                            ELSE IF kind \in cdResources[c] THEN "" ELSE "not found"
                 IN  /\ delLog' = [delLog EXCEPT ![c] =
                                     Append(@, [kind |-> kind, err |-> res])]
                     /\ cdResources' = [cdResources EXCEPT ![c] =
                                          IF res = "" THEN @ \ {kind} ELSE @]
    /\ UNCHANGED <<dbStatus, delErr, delCall>>
    /\ DeleteFrame

DeleteCustomDomainService(c) ==
    /\ dpc[c] = "del_service"
    /\ DeleteStep(c, "service", K8sClient, "del_ingressroute")

DeleteCustomDomainIngressRoute(c) ==
    /\ dpc[c] = "del_ingressroute"
    /\ DeleteStep(c, "ingressroute", DynamicClient, "del_certificate")

DeleteCustomDomainCertificate(c) ==
    /\ dpc[c] = "del_certificate"
    /\ DeleteStep(c, "certificate", DynamicClient, "return")

\* DeleteCustomDomain logs the deletion and returns nil
DeleteCustomDomainReturn(c) ==
    /\ dpc[c] = "return"
    /\ dpc' = [dpc EXCEPT ![c] = "returned"]
    /\ delErr' = [delErr EXCEPT ![c] = ""]
    /\ UNCHANGED <<dbStatus, cdResources, delLog, failures, delCall>>
    /\ DeleteFrame

DeleteCustomDomain(c) ==
    \/ DeleteCustomDomainRecord(c)
    \/ DeleteCustomDomainService(c)
    \/ DeleteCustomDomainIngressRoute(c)
    \/ DeleteCustomDomainCertificate(c)
    \/ DeleteCustomDomainReturn(c)


Verification(c) ==
    \/ NewCustomDomain(c)
    \/ StartVerification(c)
    \/ VerificationSleep(c)
    \/ VerificationAttempt(c)
    \/ VerificationExhausted(c)
    \/ CreateIngressRouteService(c)
    \/ CreateIngressRouteCertificate(c)
    \/ CreateIngressRouteRoute(c)
    \/ ProvisioningFailed(c)


(***************************************************************************)
(* The custom-domain code of the builds with the jw238dns client           *)
(* (k8s/customdomain.go): NewCustomDomain registers the TXT record itself, *)
(* VerifyTXT asks jw238dns first, StartVerification checks the TXT record  *)
(* only, drops the error of CreateIngressRoute and deletes the TXT record  *)
(* after a success.                                                        *)
(***************************************************************************)
DNS01Frame == UNCHANGED <<clientVars, clusterVars, status, everRunning, reconcileVars,
                          jobVars, deleteVars, procVars, fnVars>>

\* the object CreateIngressRoute of these builds makes for the resource
\* `kind` of claim c: the ExternalName Service to the target, the
\* Certificate for the domain from the issuer cert-issuer, or the
\* IngressRoute for the host on the entry point websecure
DNS01CustomDomainObject(c, kind) ==
    [kind |-> kind, name |-> customDomainName(c),
     labels |-> CustomDomainLabels(ClaimUserUID(c)),
     spec |-> IF kind = "service"
              THEN [type |-> "ExternalName", externalName |-> ClaimTarget(c)]
              ELSE IF kind = "certificate"
              THEN [secretName |-> tlsSecretName(c), dnsNames |-> <<ClaimDomain(c)>>,
                    issuerRef |-> [name |-> "cert-issuer", kind |-> "ClusterIssuer"]]
              ELSE [entryPoints |-> <<"websecure">>, host |-> ClaimDomain(c),
                    service |-> customDomainName(c), secretName |-> tlsSecretName(c)]]

\* DNS01Client.AddTXTRecord / DeleteTXTRecord for the record of claim c,
\* called by the function `by`: the call works or fails, and a failed call
\* changes nothing
DNS01Call(c, by, op, ok) ==
    /\ dnsCalls' = [dnsCalls EXCEPT ![c] = Append(@, [by |-> by, op |-> op, ok |-> ok])]
    /\ dnsTXT' = [dnsTXT EXCEPT ![c] = IF ok THEN op = "AddTXTRecord" ELSE @]

\* NewCustomDomain up to the nil check of the DNS client: the claim is
\* persisted as pending
DNS01NewCustomDomain(c) ==
    /\ vpc[c] = "none"
    /\ dbStatus' = [dbStatus EXCEPT ![c] = DomainStatusPending]
    /\ cdStatus' = [cdStatus EXCEPT ![c] = DomainStatusPending]
    /\ vpc' = [vpc EXCEPT ![c] = IF DNS01Client THEN "register" ELSE "created"]
    /\ UNCHANGED dnsVars
    /\ UNCHANGED <<attempt, elapsed, attemptLog, provisioned, cdResources, dbWrites,
                   failures, createCalls, createErr>>
    /\ DNS01Frame

\* NewCustomDomain with a DNS client: the TXT record is registered, and a
\* failed registration is logged only
DNS01AddTXTRecord(c) ==
    /\ vpc[c] = "register"
    /\ \E ok \in BOOLEAN : DNS01Call(c, "NewCustomDomain", "AddTXTRecord", ok)
    /\ vpc' = [vpc EXCEPT ![c] = "created"]
    /\ UNCHANGED <<dbStatus, cdStatus, attempt, elapsed, attemptLog, provisioned,
                   cdResources, dbWrites, failures, createCalls, createErr>>
    /\ DNS01Frame

\* what DNS01Client.GetTXTRecord(cd.TXTName) may return: an error, or the
\* records jw238dns holds under the name
DNS01GetTXTRecord(c) ==
    {LookupError} \cup
    (IF dnsTXT[c] THEN {Found(<<TXTValue(c)>>)}
     ELSE {Found(<<>>), Found(<<"combinator-verify=other">>)})

\* VerifyTXT on the answer of jw238dns: true on a matching record, false on
\* records of which none matches, and the fallback to net.LookupTXT after an
\* error or an empty answer
DNS01Answer(c, api) ==
    IF api.err THEN "fallback"
    ELSE IF Contains(api.records, TXTValue(c)) THEN "true"
    ELSE IF Len(api.records) > 0 THEN "false"
    ELSE "fallback"

\* VerifyTXT has returned `ok` in the loop of StartVerification: after true
\* the goroutine is about to mark the claim, after false it goes on with the
\* next round or leaves the loop
DNS01VerifyTXTReturns(c, ok) ==
    /\ attempt' = [attempt EXCEPT ![c] = @ + 1]
    /\ attemptLog' = [attemptLog EXCEPT ![c] = Append(@, [at |-> elapsed[c], ok |-> ok])]
    /\ vpc' = [vpc EXCEPT ![c] = IF ok THEN "verified"
                                 ELSE NextPosition(attempt[c] + 1, FALSE)]

\* VerifyTXT with a DNS client: the call of DNS01Client.GetTXTRecord
DNS01VerifyTXTAPI(c) ==
    /\ vpc[c] = "check"
    /\ DNS01Client
    /\ \E api \in DNS01GetTXTRecord(c) :
         LET answer == DNS01Answer(c, api)
         IN  IF answer = "fallback"
             THEN /\ vpc' = [vpc EXCEPT ![c] = "lookup"]
                  /\ UNCHANGED <<attempt, attemptLog>>
             ELSE DNS01VerifyTXTReturns(c, answer = "true")
    /\ UNCHANGED <<cdStatus, dbStatus, dbWrites, provisioned, elapsed, cdResources,
                   failures, createCalls, createErr>>
    /\ DomainFrame

\* VerifyTXT without a DNS client, or after the fallback: net.LookupTXT
DNS01VerifyTXTLookup(c) ==
    /\ \/ vpc[c] = "lookup"
       \/ vpc[c] = "check" /\ ~DNS01Client
    /\ \E txt \in TXTLookups(c) : DNS01VerifyTXTReturns(c, VerifyTXT(c, txt))
    /\ UNCHANGED <<cdStatus, dbStatus, dbWrites, provisioned, elapsed, cdResources,
                   failures, createCalls, createErr>>
    /\ DomainFrame

\* VerifyTXT returned true: the claim is marked success, in memory and in
\* the database, and CreateIngressRoute is entered
DNS01VerificationSucceeded(c) ==
    /\ vpc[c] = "verified"
    /\ cdStatus' = [cdStatus EXCEPT ![c] = DomainStatusSuccess]
    /\ UpdateCustomDomainStatus(c, DomainStatusSuccess)
    /\ provisioned' = [provisioned EXCEPT ![c] = @ + 1]
    /\ vpc' = [vpc EXCEPT ![c] = NextPosition(attempt[c], TRUE)]
    /\ UNCHANGED <<attempt, attemptLog, elapsed, cdResources, failures, createCalls,
                   createErr>>
    /\ DomainFrame

\* one attempt: the TXT check through jw238dns, through the resolver, or
\* both, then success (status written, provisioning entered), another round,
\* or the end of the loop
DNS01VerificationAttempt(c) ==
    \/ DNS01VerifyTXTAPI(c)
    \/ DNS01VerifyTXTLookup(c)
    \/ DNS01VerificationSucceeded(c)

\* what CreateIngressRoute returns after a failed Create of `kind` that
\* returned err: the error wrapped for the Service and the Certificate, and
\* as it is for the IngressRoute
DNS01CreateFailed(kind, err) ==
    IF kind = "ingressroute" THEN err ELSE CreateFailed(kind)

\* one Create call of CreateIngressRoute: on an error CreateIngressRoute
\* returns it, and StartVerification, which drops it, goes on to the cleanup
DNS01CreateStep(c, kind, next) ==
    \E inject \in InjectChoices :
        /\ Injected(inject)
        /\ LET failed == inject \/ kind \in cdResources[c]
               err == IF inject THEN "ServerError" ELSE "AlreadyExists"
           IN  /\ createCalls' = [createCalls EXCEPT ![c] =
                                    Append(@, [kind |-> kind, failed |-> failed,
                                               object |-> DNS01CustomDomainObject(c, kind)])]
               /\ cdResources' = [cdResources EXCEPT ![c] =
                                    IF failed THEN @ ELSE @ \cup {kind}]
               /\ vpc' = [vpc EXCEPT ![c] = IF failed THEN "cleanup" ELSE next]
               /\ createErr' = [createErr EXCEPT ![c] =
                                  IF failed THEN DNS01CreateFailed(kind, err)
                                  ELSE IF next = "cleanup" THEN "" ELSE @]
    /\ UNCHANGED <<cdStatus, dbStatus, dbWrites, attempt, elapsed, attemptLog, provisioned>>
    /\ DomainFrame

DNS01CreateIngressRouteService(c) ==
    /\ vpc[c] = "create_service"
    /\ IF ~DynamicClient \/ ~K8sClient
       THEN /\ createErr' = [createErr EXCEPT ![c] = "k8s client not initialized"]
            /\ vpc' = [vpc EXCEPT ![c] = "cleanup"]
            /\ UNCHANGED <<failures, createCalls, cdResources, cdStatus, dbStatus, dbWrites,
                           attempt, elapsed, attemptLog, provisioned>>
            /\ DomainFrame
       ELSE DNS01CreateStep(c, "service", "create_certificate")

DNS01CreateIngressRouteCertificate(c) ==
    /\ vpc[c] = "create_certificate"
    /\ DNS01CreateStep(c, "certificate", "create_ingressroute")

DNS01CreateIngressRouteRoute(c) ==
    /\ vpc[c] = "create_ingressroute"
    /\ DNS01CreateStep(c, "ingressroute", "cleanup")

\* mutant of DNS01Cleanup: the run ends without the cleanup
DNS01CleanupSkipped(c) ==
    /\ vpc[c] = "cleanup"
    /\ vpc' = [vpc EXCEPT ![c] = "done"]
    /\ UNCHANGED dnsVars
    /\ UNCHANGED <<dbStatus, cdStatus, attempt, elapsed, attemptLog, provisioned,
                   cdResources, dbWrites, failures, createCalls, createErr>>
    /\ DNS01Frame

\* after CreateIngressRoute: with a DNS client the TXT record is deleted (a
\* failure is logged only), and the goroutine returns
DNS01Cleanup(c) ==
    /\ vpc[c] = "cleanup"
    /\ vpc' = [vpc EXCEPT ![c] = "done"]
    /\ IF DNS01Client
       THEN \E ok \in BOOLEAN : DNS01Call(c, "StartVerification", "DeleteTXTRecord", ok)
       ELSE UNCHANGED dnsVars
    /\ UNCHANGED <<dbStatus, cdStatus, attempt, elapsed, attemptLog, provisioned,
                   cdResources, dbWrites, failures, createCalls, createErr>>
    /\ DNS01Frame

\* NewCustomDomain, StartVerification and the goroutine it starts; the start,
\* the sleep and the end of the loop are those of Verification
DNS01Verification(c) ==
    \/ DNS01NewCustomDomain(c)
    \/ DNS01AddTXTRecord(c)
    \/ StartVerification(c)
    \/ VerificationSleep(c)
    \/ DNS01VerificationAttempt(c)
    \/ VerificationExhausted(c)
    \/ DNS01CreateIngressRouteService(c)
    \/ DNS01CreateIngressRouteCertificate(c)
    \/ DNS01CreateIngressRouteRoute(c)
    \/ DNS01Cleanup(c)

\* what the steps of DeleteCustomDomain of these builds leave alone
DNS01DeleteFrame ==
    UNCHANGED <<clientVars, clusterVars, status, everRunning, reconcileVars, jobVars,
                cdStatus, vpc, attempt, elapsed, attemptLog, provisioned, dbWrites,
                createCalls, createErr, cdResources, delLog, procVars, fnVars>>

\* DeleteCustomDomain of these builds, called for an existing claim:
\* GetCustomDomain reads the row for the cleanup of the TXT record, and
\* returns nil when the read fails
DNS01DeleteCustomDomainGet(c) ==
    /\ dpc[c] = "idle"
    /\ dbStatus[c] # "none"
    /\ \E inject \in InjectChoices :
         /\ Injected(inject)
         /\ delCall' = [delCall EXCEPT ![c] = [vpc |-> vpc[c], resources |-> cdResources[c],
                                               found |-> ~inject]]
    /\ dpc' = [dpc EXCEPT ![c] = "del_record"]
    /\ UNCHANGED <<dbStatus, delErr, dnsVars>>
    /\ DNS01DeleteFrame

\* dblayer.DeleteCustomDomain: an error is returned before any sub-resource
\* is touched
DNS01DeleteCustomDomainRecord(c) ==
    /\ dpc[c] = "del_record"
    /\ \E inject \in InjectChoices :
         /\ Injected(inject)
         /\ IF inject
            THEN /\ delErr' = [delErr EXCEPT ![c] = "delete failed"]
                 /\ dpc' = [dpc EXCEPT ![c] = "returned"]
                 /\ UNCHANGED dbStatus
            ELSE /\ dbStatus' = [dbStatus EXCEPT ![c] = "none"]
                 /\ dpc' = [dpc EXCEPT ![c] = "del_service"]
                 /\ UNCHANGED delErr
    /\ UNCHANGED <<delCall, dnsVars>>
    /\ DNS01DeleteFrame

\* the Delete of the Certificate, after which the TXT record is cleaned up
DNS01DeleteCustomDomainCertificate(c) ==
    /\ dpc[c] = "del_certificate"
    /\ DeleteStep(c, "certificate", DynamicClient, "del_txt")

\* with the row read and a DNS client the TXT record is deleted (a failure
\* is logged only), and DeleteCustomDomain returns nil
DNS01DeleteTXTRecord(c) ==
    /\ dpc[c] = "del_txt"
    /\ IF delCall[c].found /\ DNS01Client
       THEN \E ok \in BOOLEAN : DNS01Call(c, "DeleteCustomDomain", "DeleteTXTRecord", ok)
       ELSE UNCHANGED dnsVars
    /\ dpc' = [dpc EXCEPT ![c] = "returned"]
    /\ delErr' = [delErr EXCEPT ![c] = ""]
    /\ UNCHANGED <<dbStatus, delCall, failures>>
    /\ DNS01DeleteFrame

\* DeleteCustomDomain of these builds; the Deletes of the Service and of the
\* IngressRoute are those of DeleteCustomDomain
DNS01DeleteCustomDomain(c) ==
    \/ DNS01DeleteCustomDomainGet(c)
    \/ DNS01DeleteCustomDomainRecord(c)
    \/ DeleteCustomDomainService(c)
    \/ DeleteCustomDomainIngressRoute(c)
    \/ DNS01DeleteCustomDomainCertificate(c)
    \/ DNS01DeleteTXTRecord(c)


(***************************************************************************)
(* Task Processor                                                         *)
(***************************************************************************)
\* the buffer size and the number of workers given to NewProcessor
BufferSize == 1
NumWorkers == 2
\* the number of Job instances constructed in a behaviour
MaxSubmits == 4

ProcWorkers == 1..NumWorkers

\* the request handlers that submit Jobs
Submitters == {"h1", "h2"}

\* a Job instance: the n-th Job constructed by submitter s
NoJob == [by |-> "", n |-> 0]

NewJob(s) == [by |-> s, n |-> made[s] + 1]

JobInstances == [by : Submitters, n : 1..MaxSubmits]

RECURSIVE Sum(_, _)
Sum(f, S) == IF S = {} THEN 0
             ELSE LET x == CHOOSE y \in S : TRUE IN f[x] + Sum(f, S \ {x})

\* the number of Job instances constructed so far
Constructed == Sum(made, Submitters)

\* what Do() of a Job may return
DoResults == {"nil", "error"}

ProcFrame ==
    UNCHANGED <<clientVars, clusterVars, status, everRunning, reconcileVars, failures,
                jobVars, domainVars, fnVars>>

\* Processor.Start: launches the N worker loops
Start ==
    /\ procState = "new"
    /\ procState' = "started"
    /\ wpc' = [k \in ProcWorkers |-> "idle"]
    /\ UNCHANGED <<queue, wjob, spc, sjob, made, doCalls, finished, atClose,
                   accepted, rejected>>
    /\ ProcFrame

\* a request handler constructs a Job and calls Submit
SubmitCall(s) ==
    /\ spc[s] = "idle"
    /\ Constructed < MaxSubmits
    /\ sjob' = [sjob EXCEPT ![s] = NewJob(s)]
    /\ made' = [made EXCEPT ![s] = @ + 1]
    /\ spc' = [spc EXCEPT ![s] = "submit"]
    /\ UNCHANGED <<queue, procState, wpc, wjob, doCalls, finished, atClose,
                   accepted, rejected>>
    /\ ProcFrame

\* mutant of SubmitEnqueue: a full buffer does not hold the caller back
SubmitEnqueueUnbounded(s) ==
    /\ spc[s] = "submit"
    /\ spc' = [spc EXCEPT ![s] = "idle"]
    /\ IF procState \in {"closing", "closed"}
       THEN /\ rejected' = rejected \cup {sjob[s]}
            /\ UNCHANGED <<queue, accepted>>
       ELSE /\ queue' = Append(queue, sjob[s])
            /\ accepted' = accepted \cup {sjob[s]}
            /\ UNCHANGED rejected
    /\ UNCHANGED <<procState, wpc, wjob, sjob, made, doCalls, finished, atClose>>
    /\ ProcFrame

\* Submit returns: the Job is in the buffer, which must have room for it (the
\* caller waits while it is full), or, once Close has begun, the Job is refused
SubmitEnqueue(s) ==
    /\ spc[s] = "submit"
    /\ procState \in {"closing", "closed"} \/ Len(queue) < BufferSize
    /\ spc' = [spc EXCEPT ![s] = "idle"]
    /\ IF procState \in {"closing", "closed"}
       THEN /\ rejected' = rejected \cup {sjob[s]}
            /\ UNCHANGED <<queue, accepted>>
       ELSE /\ queue' = Append(queue, sjob[s])
            /\ accepted' = accepted \cup {sjob[s]}
            /\ UNCHANGED rejected
    /\ UNCHANGED <<procState, wpc, wjob, sjob, made, doCalls, finished, atClose>>
    /\ ProcFrame

\* a worker loop pulls one Job from the buffer and calls its Do()
WorkerDequeue(k) ==
    /\ wpc[k] = "idle"
    /\ queue # <<>>
    /\ wjob' = [wjob EXCEPT ![k] = Head(queue)]
    /\ queue' = Tail(queue)
    /\ wpc' = [wpc EXCEPT ![k] = "running"]
    /\ doCalls' = [doCalls EXCEPT ![Head(queue)] = @ + 1]
    /\ UNCHANGED <<procState, spc, sjob, made, finished, atClose, accepted,
                   rejected>>
    /\ ProcFrame

\* mutant of WorkerFinish: a Job whose Do() returned an error is put back
WorkerFinishRetries(k) ==
    /\ wpc[k] = "running"
    /\ \E err \in DoResults :
         /\ finished' = [finished EXCEPT ![wjob[k]] = err]
         /\ queue' = IF err = "error" THEN Append(queue, wjob[k]) ELSE queue
    /\ wpc' = [wpc EXCEPT ![k] = "idle"]
    /\ wjob' = [wjob EXCEPT ![k] = NoJob]
    /\ UNCHANGED <<procState, spc, sjob, made, doCalls, atClose, accepted,
                   rejected>>
    /\ ProcFrame

\* Do() returns nil or an error (which is logged); the worker takes the next Job
WorkerFinish(k) ==
    /\ wpc[k] = "running"
    /\ \E err \in DoResults : finished' = [finished EXCEPT ![wjob[k]] = err]
    /\ wpc' = [wpc EXCEPT ![k] = "idle"]
    /\ wjob' = [wjob EXCEPT ![k] = NoJob]
    /\ UNCHANGED <<queue, procState, spc, sjob, made, doCalls, atClose, accepted,
                   rejected>>
    /\ ProcFrame

\* a worker loop that runs no Job ends once Close has begun.  Close waits for
\* the Jobs in flight; whether the Jobs still in the buffer are run first is
\* left open: the loop may as well take one (WorkerDequeue)
WorkerExit(k) ==
    /\ wpc[k] = "idle"
    /\ procState = "closing"
    /\ wpc' = [wpc EXCEPT ![k] = "exited"]
    /\ UNCHANGED <<queue, procState, wjob, spc, sjob, made, doCalls, finished,
                   atClose, accepted, rejected>>
    /\ ProcFrame

\* Processor.Close (Stop) is called: no new Job is accepted from here on
Close ==
    /\ procState = "started"
    /\ procState' = "closing"
    /\ atClose' = {wjob[k] : k \in {i \in ProcWorkers : wpc[i] = "running"}}
    /\ UNCHANGED <<queue, wpc, wjob, spc, sjob, made, doCalls, finished,
                   accepted, rejected>>
    /\ ProcFrame

\* mutant of CloseReturn: Close does not wait for the workers
CloseReturnNoWait ==
    /\ procState = "closing"
    /\ procState' = "closed"
    /\ UNCHANGED <<queue, wpc, wjob, spc, sjob, made, doCalls, finished,
                   atClose, accepted, rejected>>
    /\ ProcFrame

\* Close returns when every worker loop has ended
CloseReturn ==
    /\ procState = "closing"
    /\ \A k \in ProcWorkers : wpc[k] = "exited"
    /\ procState' = "closed"
    /\ UNCHANGED <<queue, wpc, wjob, spc, sjob, made, doCalls, finished,
                   atClose, accepted, rejected>>
    /\ ProcFrame

Processor ==
    \/ Start
    \/ \E s \in Submitters : SubmitCall(s)
    \/ \E s \in Submitters : SubmitEnqueue(s)
    \/ \E k \in ProcWorkers : WorkerDequeue(k)
    \/ \E k \in ProcWorkers : WorkerFinish(k)
    \/ \E k \in ProcWorkers : WorkerExit(k)
    \/ Close
    \/ CloseReturn


(***************************************************************************)
(* Initial states and specifications                                       *)
(***************************************************************************)
Jobs == {"env", "secret"}

InitClients ==
    /\ w \in WorkerAppSpecs
    /\ K8sClient = TRUE
    /\ DynamicClient = TRUE
    /\ DNS01Client = FALSE

InitWorkers ==
    /\ pc = [p \in Workers |-> "idle"]
    /\ existing = [p \in Workers |-> NoObject]
    /\ results = [p \in Workers |-> <<>>]
    /\ reported = [p \in Workers |-> <<>>]
    /\ writes = [p \in Workers |-> <<>>]
    /\ invocations = [p \in Workers |-> 0]
    /\ prev = [p \in Workers |-> [phase |-> "none", failedAt |-> 0]]
    /\ dropsErrors = [p \in Workers |-> FALSE]
    /\ status = [phase |-> "", message |-> ""]
    /\ everRunning = FALSE

InitSyncJobs ==
    /\ jobPc = [j \in Jobs |-> "idle"]
    /\ jobData = [j \in Jobs |-> EmptyMap]
    /\ jobObj = [j \in Jobs |-> NoObject]
    /\ jobErr = [j \in Jobs |-> ""]
    /\ jobsRun = 0
    /\ workerStatus = ""

InitJobs ==
    /\ InitSyncJobs
    /\ deploy = NoDeploy

InitDomains ==
    /\ dbStatus = [c \in Claims |-> "none"]
    /\ cdStatus = [c \in Claims |-> "none"]
    /\ vpc = [c \in Claims |-> "none"]
    /\ attempt = [c \in Claims |-> 0]
    /\ elapsed = [c \in Claims |-> 0]
    /\ attemptLog = [c \in Claims |-> <<>>]
    /\ provisioned = [c \in Claims |-> 0]
    /\ cdResources = [c \in Claims |-> {}]
    /\ dbWrites = [c \in Claims |-> <<>>]
    /\ createCalls = [c \in Claims |-> <<>>]
    /\ createErr = [c \in Claims |-> NotReturned]
    /\ dpc = [c \in Claims |-> "idle"]
    /\ delErr = [c \in Claims |-> NotReturned]
    /\ delCall = [c \in Claims |-> [vpc |-> "none", resources |-> {}]]
    /\ delLog = [c \in Claims |-> <<>>]
    /\ dnsTXT = [c \in Claims |-> FALSE]
    /\ dnsCalls = [c \in Claims |-> <<>>]

\* a Processor just constructed
InitProcessor ==
    /\ queue = <<>>
    /\ procState = "new"
    /\ wpc = [k \in ProcWorkers |-> "not started"]
    /\ wjob = [k \in ProcWorkers |-> NoJob]
    /\ spc = [s \in Submitters |-> "idle"]
    /\ sjob = [s \in Submitters |-> NoJob]
    /\ made = [s \in Submitters |-> 0]
    /\ doCalls = [j \in JobInstances |-> 0]
    /\ finished = [j \in JobInstances |-> ""]
    /\ atClose = {}
    /\ accepted = {}
    /\ rejected = {}

\* no function application under way
NotApplied == [applied |-> FALSE]

InitFunctions ==
    /\ fnIn = NotApplied
    /\ fnOut = NotApplied

\* a cluster in which nothing of the workload exists
InitClusterEmpty ==
    /\ configMap = NoObject
    /\ secret = NoObject
    /\ deployment = NoObject
    /\ service = NoObject
    /\ ingressRoute = NoObject
    /\ rvClock = 0

\* any cluster: each sub-resource is absent or left over from earlier work,
\* the ConfigMap and the Secret with any keys a user or an earlier version of
\* the platform may have written
InitClusterAny ==
    /\ configMap \in {NoObject} \cup {Object(1, m) : m \in MapsOver(Keys, UserVal)}
    /\ secret \in {NoObject} \cup {Object(1, m) : m \in MapsOver(Keys, UserVal)}
    /\ deployment \in {NoObject, Object(1, BuildDeployment(EarlierVersion(w)))}
    /\ service \in {NoObject, Object(1, BuildService(EarlierVersion(w)))}
    /\ ingressRoute \in {NoObject, Object(1, BuildIngressRoute(EarlierVersion(w)))}
    /\ rvClock = 1

\* one controller worker reconciling the workload again and again
Init ==
    /\ InitClients /\ InitClusterAny /\ InitWorkers /\ InitJobs /\ InitDomains /\ InitProcessor /\ InitFunctions
    /\ failures = 0

Next == Reconcile("A")

Spec == Init /\ [][Next]_vars


\* the controller worker and the Processor's sync jobs on the same workload
InitJobsSpec ==
    /\ InitClients /\ InitClusterEmpty /\ InitWorkers /\ InitJobs /\ InitDomains /\ InitProcessor /\ InitFunctions
    /\ failures = 0

NextJobs == Reconcile("A") \/ SyncJobs

SpecJobs == InitJobsSpec /\ [][NextJobs]_vars

\* two controller workers reconciling the same workload concurrently, with an
\* API server that answers every call (no server errors)
InitConcurrent ==
    /\ InitClients /\ InitClusterAny /\ InitWorkers /\ InitJobs /\ InitDomains /\ InitProcessor /\ InitFunctions
    /\ failures = MaxFailures

NextConcurrent == \E p \in Workers : Reconcile(p)

SpecConcurrent == InitConcurrent /\ [][NextConcurrent]_vars

\* the same two workers on a cluster in which the IngressRoute is absent or
\* left by an earlier version, and the other four sub-resources are all
\* absent or all left by an earlier version
InitConcurrentRoutes ==
    /\ InitConcurrent
    /\ configMap \in {NoObject, Object(1, [k \in Keys |-> UserVal])}
    /\ secret.exists = configMap.exists
    /\ secret.exists => secret.body = [k \in Keys |-> UserVal]
    /\ deployment.exists = configMap.exists
    /\ service.exists = configMap.exists

SpecConcurrentRoutes == InitConcurrentRoutes /\ [][NextConcurrent]_vars

\* the ensure steps called with either cluster client initialised or not, on
\* a cluster whose sub-resources are all absent or all left by an earlier
\* version, with or without server errors
InitEnsure ==
    /\ w \in WorkerAppSpecs
    /\ K8sClient \in BOOLEAN
    /\ DynamicClient \in BOOLEAN
    /\ DNS01Client = FALSE
    /\ InitClusterAny /\ InitWorkers /\ InitJobs /\ InitDomains /\ InitProcessor /\ InitFunctions
    /\ configMap \in {NoObject, Object(1, [k \in Keys |-> UserVal])}
    /\ secret.exists = configMap.exists
    /\ secret.exists => secret.body = [k \in Keys |-> UserVal]
    /\ deployment.exists = configMap.exists
    /\ service.exists = configMap.exists
    /\ ingressRoute.exists = configMap.exists
    /\ failures \in {0, MaxFailures}

NextEnsure == Ensure("A")

SpecEnsure == InitEnsure /\ [][NextEnsure]_vars

\* the verification runs of the claims
InitVerification ==
    /\ InitClients /\ InitClusterEmpty /\ InitWorkers /\ InitJobs /\ InitDomains /\ InitProcessor /\ InitFunctions
    /\ failures = 0

NextVerification == \E c \in Claims : Verification(c)

SpecVerification == InitVerification /\ [][NextVerification]_vars

\* the claims with their verification runs and their deletion, with either
\* cluster client initialised or not
InitDomainsSpec ==
    /\ w \in WorkerAppSpecs
    /\ K8sClient \in BOOLEAN
    /\ DynamicClient \in BOOLEAN
    /\ DNS01Client = FALSE
    /\ InitClusterEmpty /\ InitWorkers /\ InitJobs /\ InitDomains /\ InitProcessor /\ InitFunctions
    /\ failures = 0

\* one claim is enough here: DeleteCustomDomain and the run of a claim touch
\* nothing of another claim
NextDomains == Verification("c1") \/ DeleteCustomDomain("c1")

SpecDomains == InitDomainsSpec /\ [][NextDomains]_vars

\* the claims of a build with the jw238dns client, which is configured or not
InitDNS01 ==
    /\ w \in WorkerAppSpecs
    /\ K8sClient \in BOOLEAN
    /\ DynamicClient \in BOOLEAN
    /\ DNS01Client \in BOOLEAN
    /\ InitClusterEmpty /\ InitWorkers /\ InitJobs /\ InitDomains /\ InitProcessor /\ InitFunctions
    /\ failures = 0

NextDNS01 == DNS01Verification("c1") \/ DNS01DeleteCustomDomain("c1")

SpecDNS01 == InitDNS01 /\ [][NextDNS01]_vars

\* the Processor with its workers and submitters
InitProcessorSpec ==
    /\ InitClients /\ InitClusterEmpty /\ InitWorkers /\ InitJobs /\ InitDomains
    /\ InitProcessor /\ InitFunctions
    /\ failures = 0

NextProcessor == Processor

SpecProcessor == InitProcessorSpec /\ [][NextProcessor]_vars

\* DeleteAll called again and again on any cluster
InitDeleteAll ==
    /\ InitClients /\ InitClusterAny /\ InitWorkers /\ InitJobs /\ InitDomains
    /\ InitProcessor /\ InitFunctions
    /\ failures = 0

NextDeleteAll == DeleteAll("A")

SpecDeleteAll == InitDeleteAll /\ [][NextDeleteAll]_vars

\* everything but the function applications
RestFrame ==
    UNCHANGED <<clientVars, clusterVars, status, everRunning, reconcileVars, failures,
                jobVars, domainVars, procVars>>

InitRest ==
    /\ InitClients /\ InitClusterEmpty /\ InitWorkers /\ InitJobs /\ InitDomains
    /\ InitProcessor
    /\ failures = 0

\* identifiers as the descriptor's WorkerID and OwnerID fields may hold them
\* (strings, with nothing in WorkerAppSpec restricting their characters)
Identifiers == {"a", "b", "c", "a-b", "b-c"}

\* the names of the sub-resources of the workload of descriptor s
ResourceNames(s) ==
    [deployment |-> Name(s), service |-> Name(s), ingressRoute |-> Name(s),
     configMap |-> EnvConfigMapName(s), secret |-> SecretName(s)]

\* WorkerName applied to two descriptors
InitNames ==
    /\ InitRest
    /\ fnIn \in [a : [WorkerID : Identifiers, OwnerID : Identifiers],
                  b : [WorkerID : Identifiers, OwnerID : Identifiers]]
    /\ fnOut = NotApplied

ApplyWorkerName ==
    /\ fnOut = NotApplied
    /\ fnOut' = [a |-> ResourceNames(fnIn.a), b |-> ResourceNames(fnIn.b)]
    /\ UNCHANGED fnIn
    /\ RestFrame

NextNames == ApplyWorkerName

SpecNames == InitNames /\ [][NextNames]_vars

\* the descriptors EnsureDeployment is applied to: every combination of set
\* and unset quantities, and replica counts around zero and around the
\* 32-bit limit (-1, 0, 1, 3, 2^31 - 1, 2^31, 2^32 + 1)
ReplicaCounts ==
    {GoInt(-1, 2147483647), GoInt(0, 0), GoInt(0, 1), GoInt(0, 3),
     GoInt(0, 2147483647), GoInt(1, 0), GoInt(2, 1)}

Descriptors ==
    {[d EXCEPT !.AssignedCPU = cpu, !.AssignedMemory = mem, !.AssignedDisk = disk,
               !.MaxReplicas = n] :
        d \in WorkerAppSpecs, cpu \in {"", "2", "500m", "lots"}, mem \in {"", "1Gi"},
        disk \in {"", "5Gi"}, n \in ReplicaCounts}

InitDefaults ==
    /\ InitRest
    /\ fnIn \in Descriptors
    /\ fnOut = NotApplied

\* EnsureDeployment up to the object it builds
ApplyEnsureDeployment ==
    /\ fnOut = NotApplied
    /\ fnOut' = IF EnsureDeploymentPanics(fnIn)
                THEN [applied |-> TRUE, panic |-> TRUE]
                ELSE [applied |-> TRUE, panic |-> FALSE, object |-> BuildDeployment(fnIn)]
    /\ UNCHANGED fnIn
    /\ RestFrame

NextDefaults == ApplyEnsureDeployment

SpecDefaults == InitDefaults /\ [][NextDefaults]_vars

(***************************************************************************)
(* The accept-task endpoint (handlers/basic.jobs.go)                       *)
(***************************************************************************)
StatusOK == 200
StatusBadRequest == 400

\* a JSON field that is not in the request body, one that is null, and one
\* that holds a value
Missing == [set |-> FALSE]

Null == [set |-> TRUE, null |-> TRUE]

Field(v) == [set |-> TRUE, null |-> FALSE, v |-> v]

\* the bodies posted to /api/acceptTask: syntactically valid or not, with
\* each field missing, null or present; data as SendTask marshals a Job
AcceptTaskRequests ==
    [malformed : BOOLEAN,
     task_type : {Missing, Field(""), Field("auth.register_user"), Field("worker.deploy")},
     timestamp : {Missing, Field(-1), Field(0), Field(1), Field(1700000000)},
     data : {Missing, Null, Field("job")}]

\* what time.Now().Unix() may return while the handler runs
ReceivedAts == {1700000000, 1700000001}

\* the value the decoder leaves in a field of the request: the zero value for
\* a field that is missing or null
Decoded(field, zero) == IF field.set /\ ~field.null THEN field.v ELSE zero

\* c.ShouldBindJSON(&req): the decoded AcceptTaskRequest, or the error of the
\* decoder or of a binding:"required" field left at its zero value.  Data is
\* of the interface type k8s.Job (Type, ID, Do): the decoder cannot store a
\* JSON value in it and reports the field, and a null leaves it nil.  A body
\* that is not JSON is refused before any field is stored: req keeps its
\* zero value
ShouldBindJSON(body) ==
    LET zero == [TaskType |-> "", Timestamp |-> 0, Data |-> Nil]
        req == [TaskType |-> Decoded(body.task_type, ""),
                Timestamp |-> Decoded(body.timestamp, 0),
                Data |-> Nil]
    IN  IF body.malformed THEN [err |-> "invalid character", req |-> zero]
        ELSE IF body.data.set /\ ~body.data.null
        THEN [err |-> "cannot unmarshal into Go struct field AcceptTaskRequest.data",
              req |-> req]
        ELSE IF req.TaskType = "" \/ req.Timestamp = 0 \/ req.Data = Nil
        THEN [err |-> "required", req |-> req]
        ELSE [err |-> "", req |-> req]

\* JobsHandler.AcceptTask: the response written for the body, at the time now
AcceptTaskResponse(body, now) ==
    LET bound == ShouldBindJSON(body)
    IN  IF bound.err # ""
        THEN [applied |-> TRUE, code |-> StatusBadRequest, error |-> bound.err]
        ELSE IF bound.req.Timestamp <= 0
        THEN [applied |-> TRUE, code |-> StatusBadRequest, error |-> "invalid timestamp"]
        ELSE [applied |-> TRUE, code |-> StatusOK, message |-> "task accepted",
              task_type |-> bound.req.TaskType, timestamp |-> bound.req.Timestamp,
              received_at |-> now]

\* JobsHandler.AcceptTask: the handler writes its response; h.processor is
\* not used
AcceptTask ==
    /\ fnOut = NotApplied
    /\ \E now \in ReceivedAts : fnOut' = AcceptTaskResponse(fnIn, now)
    /\ UNCHANGED fnIn
    /\ RestFrame

InitAcceptTask ==
    /\ InitRest
    /\ fnIn \in AcceptTaskRequests
    /\ fnOut = NotApplied

NextAcceptTask == AcceptTask

SpecAcceptTask == InitAcceptTask /\ [][NextAcceptTask]_vars

\* the loop body of StartVerification applied to every pair of lookup
\* results, at every attempt number
InitAttempt ==
    /\ InitRest
    /\ \E c \in Claims :
          fnIn \in [c : {c}, i : 1..MaxAttempts, txt : TXTLookups(c), cn : CNAMELookups(c)]
    /\ fnOut = NotApplied

ApplyAttemptBody ==
    /\ fnOut = NotApplied
    /\ fnOut' = AttemptBody(fnIn.c, fnIn.i, fnIn.txt, fnIn.cn)
    /\ UNCHANGED fnIn
    /\ RestFrame

NextAttempt == ApplyAttemptBody

SpecAttempt == InitAttempt /\ [][NextAttempt]_vars

\* a deploy job for one of two versions, whose row and whose worker's row
\* have any status, about to execute Do()
InitDeploy ==
    /\ InitClients /\ InitClusterEmpty /\ InitWorkers /\ InitSyncJobs /\ InitDomains
    /\ InitProcessor /\ InitFunctions
    /\ failures = 0
    /\ \E versionID \in {1, 2}, version \in VersionStatuses, worker \in WorkerStatuses :
          deploy = NewDeploy(versionID, version, worker)

NextDeploy == deployWorkerJob

SpecDeploy == InitDeploy /\ [][NextDeploy]_vars

\* results of generateVerifyToken
Tokens ==
    {"00112233445566778899aabbccddeeff", "0123456789abcdef0123456789abcdef",
     "ffffffff00000000ffffffff00000000"}

\* NewCustomDomain applied to the domains and targets a user may enter
InitNewDomain ==
    /\ InitRest
    /\ fnIn \in [userUID : {"u1", "u2"},
                  domain : {"example.com", "shop.example.com", ""},
                  target : {"app.svc.example.net", "edge.example.net."},
                  random : Tokens \X Tokens,
                  dbFails : BOOLEAN]
    /\ fnOut = NotApplied

ApplyNewCustomDomain ==
    /\ fnOut = NotApplied
    /\ fnOut' = NewCustomDomainCall(fnIn.userUID, fnIn.domain, fnIn.target,
                                     fnIn.random, fnIn.dbFails)
    /\ UNCHANGED fnIn
    /\ RestFrame

NextNewDomain == ApplyNewCustomDomain

SpecNewDomain == InitNewDomain /\ [][NextNewDomain]_vars

\* the steps of the goroutine StartVerification launched for claim c
VerificationRun(c) ==
    \/ VerificationSleep(c)
    \/ VerificationAttempt(c)
    \/ VerificationExhausted(c)
    \/ CreateIngressRouteService(c)
    \/ CreateIngressRouteCertificate(c)
    \/ CreateIngressRouteRoute(c)
    \/ ProvisioningFailed(c)

\* the verification runs under the Go scheduler: a goroutine that can take a
\* step (its sleep is over, its lookups and API calls return) takes it
SpecVerificationFair ==
    /\ InitVerification
    /\ [][NextVerification]_vars
    /\ \A c \in Claims : WF_vars(VerificationRun(c))


(***************************************************************************)
(* Properties of the reconciler                                            *)
(***************************************************************************)
\* the order in which reconcile runs the ensure steps
StepOrder == <<"configmap", "secret", "deployment", "service", "ingressroute">>

\* the step a position of reconcile belongs to (0: none)
StepAt(position) ==
    CASE position \in {"cm_get", "cm_create", "cm_update"} -> 1
      [] position \in {"sec_get", "sec_create", "sec_update"} -> 2
      [] position \in {"dep_get", "dep_create", "dep_update"} -> 3
      [] position \in {"svc_get", "svc_create"} -> 4
      [] position \in {"ir_get", "ir_create", "ir_update"} -> 5
      [] OTHER -> 0

\* the place of a sub-resource kind in the order of the steps
StepIndex(kind) == CHOOSE i \in 1..Len(StepOrder) : StepOrder[i] = kind

\* the sub-resource of step i exists in the cluster
Exists(i) ==
    CASE i = 1 -> configMap.exists
      [] i = 2 -> secret.exists
      [] i = 3 -> deployment.exists
      [] i = 4 -> service.exists
      [] i = 5 -> ingressRoute.exists

ReservedKeySet == {ReservedEnvKeys[i] : i \in 1..Len(ReservedEnvKeys)}

\* the reserved keys are in the Secret with the descriptor's values and not
\* in the ConfigMap
ReservedKeysInPlace ==
    /\ secret.exists
    /\ \A k \in ReservedKeySet :
          k \in DOMAIN secret.body /\ secret.body[k] = systemSecretData(w)[k]
    /\ configMap.exists
    /\ \A k \in ReservedKeySet : k \notin DOMAIN configMap.body

\* the invocation of worker p has failed at some step
Failed(p) == \E i \in 1..Len(results[p]) : results[p][i].err # ""

\* all five steps of the invocation of worker p have returned nil
AllSucceeded(p) ==
    /\ Len(results[p]) = Len(StepOrder)
    /\ \A i \in 1..Len(results[p]) : results[p][i].err = ""

\* the positions of reconcile between the return of an ensure step and the
\* report of the outcome
ReportPositions == {"report_failed", "report_running"}

\* C1: within one invocation the ensure steps return in the order configmap,
\* secret, deployment, service, ingressroute; the step in progress is the one
\* after the steps that returned; after a step returned an error the
\* invocation reports and is over (no later step is attempted); the
\* invocation is about to report Running only after all five steps returned
\* nil; the sub-resources of the
\* steps that succeeded before it are still in the cluster (no rollback); and
\* the writes of the invocation follow the same order, none of them for a
\* step beyond the one in progress.
C1_StrictOrderAbortNoRollback ==
    \A p \in Workers :
        /\ Len(results[p]) <= Len(StepOrder)
        /\ \A i \in 1..Len(results[p]) :
              /\ results[p][i].step = StepOrder[i]
              /\ i < Len(results[p]) => results[p][i].err = ""
              /\ results[p][i].err = "" => Exists(i)
        /\ pc[p] \notin {"idle", "done"} \cup ReportPositions =>
              StepAt(pc[p]) = Len(results[p]) + 1
        /\ Failed(p) => pc[p] \in {"report_failed", "done"}
        /\ pc[p] = "report_running" => AllSucceeded(p)
        /\ \A i \in 1..Len(writes[p]) :
              /\ StepIndex(writes[p][i].kind) <= Len(results[p]) + 1
              /\ \A j \in 1..(i - 1) :
                    StepIndex(writes[p][j].kind) < StepIndex(writes[p][i].kind)

\* an invocation failed at the third step after it had created the ConfigMap
\* and the Secret, which are still there
C1_Witness ==
    /\ pc["A"] = "done"
    /\ Len(results["A"]) = 3
    /\ results["A"][3].err # ""
    /\ Len(writes["A"]) >= 2
    /\ writes["A"][1] = [kind |-> "configmap", verb |-> "create", err |-> "", changed |-> TRUE]
    /\ writes["A"][2] = [kind |-> "secret", verb |-> "create", err |-> "", changed |-> TRUE]
    /\ configMap.exists /\ secret.exists

\* C2: an invocation reports Deploying first and nothing else while its steps
\* run and until it reports their outcome; when it is over it has reported exactly one more phase: Failed, with
\* the error of the failing step as message, iff a step returned an error,
\* and Running iff all five steps returned nil.
C2_PhaseReports ==
    \A p \in Workers :
        /\ pc[p] # "idle" =>
              /\ reported[p] # <<>>
              /\ reported[p][1] = [phase |-> "Deploying", message |-> ""]
        /\ pc[p] \notin {"idle", "done"} => Len(reported[p]) = 1
        /\ pc[p] \notin {"idle", "done", "report_failed"} => ~Failed(p)
        /\ pc[p] = "done" =>
              /\ Len(reported[p]) = 2
              /\ reported[p][2].phase \in {"Failed", "Running"}
              /\ reported[p][2].phase = "Failed" <=> Failed(p)
              /\ reported[p][2].phase = "Running" <=> AllSucceeded(p)
              /\ Failed(p) => reported[p][2].message = results[p][Len(results[p])].err
              /\ status = reported[p][2]

\* an invocation that failed at its fourth step has reported Deploying, Failed
C2_Witness ==
    /\ pc["A"] = "done"
    /\ Len(results["A"]) = 4
    /\ results["A"][4].err = "ServerError"
    /\ reported["A"] = <<[phase |-> "Deploying", message |-> ""],
                         [phase |-> "Failed", message |-> "ServerError"]>>

\* C3 as stated: the invocation that follows a successful one issues no
\* create and no update.
C3_SecondCallIssuesNoWrite ==
    \A p \in Workers :
        (pc[p] = "done" /\ prev[p].phase = "Running") => writes[p] = <<>>

\* C3 amended: the invocation that follows a successful one creates nothing
\* and changes nothing in the cluster; the only writes it issues are updates
\* of the Secret, the Deployment and the IngressRoute that store what is
\* already there, and when it completes it has issued exactly these three.
C3_SecondCallChangesNothing ==
    \A p \in Workers :
        prev[p].phase = "Running" /\ pc[p] # "idle" =>
            /\ \A i \in 1..Len(writes[p]) :
                  /\ writes[p][i].verb = "update"
                  /\ writes[p][i].kind \in {"secret", "deployment", "ingressroute"}
                  /\ ~writes[p][i].changed
            /\ AllSucceeded(p) =>
                  [i \in 1..Len(writes[p]) |-> writes[p][i].kind]
                      = <<"secret", "deployment", "ingressroute">>

\* a second invocation has completed after a successful first one
C3_Witness ==
    /\ pc["A"] = "done"
    /\ prev["A"].phase = "Running"
    /\ AllSucceeded("A")
    /\ Len(writes["A"]) = 3

\* C4: once the ConfigMap step and the Secret step of an invocation have
\* succeeded, the three reserved keys are in the Secret with the values
\* derived from the descriptor and none of them is in the ConfigMap,
\* whatever the two stores held before.
C4_ReservedKeysAfterReconcile ==
    \A p \in Workers :
        (Len(results[p]) >= 2 /\ results[p][2].err = "") => ReservedKeysInPlace

\* an invocation completed that had to strip the ConfigMap and to overwrite
\* the Secret
C4_Witness ==
    /\ pc["A"] = "done"
    /\ AllSucceeded("A")
    /\ writes["A"][1] = [kind |-> "configmap", verb |-> "update", err |-> "", changed |-> TRUE]
    /\ writes["A"][2] = [kind |-> "secret", verb |-> "update", err |-> "", changed |-> TRUE]
    /\ ReservedKeysInPlace

\* no call of the invocation of worker p failed with a server error
NoExternalFailure(p) ==
    \A i \in 1..Len(results[p]) : results[p][i].err # "ServerError"

\* C7: an invocation that follows one which failed at any step, and in which
\* no API call fails, completes all five steps and reports Running.
C7_ReentrantAfterFailure ==
    \A p \in Workers :
        (pc[p] = "done" /\ prev[p].failedAt # 0 /\ NoExternalFailure(p)) =>
            /\ AllSucceeded(p)
            /\ status.phase = "Running"

\* an invocation reported Running after the previous one had failed at the
\* last step
C7_Witness ==
    /\ pc["A"] = "done"
    /\ prev["A"].failedAt = 5
    /\ AllSucceeded("A")
    /\ status.phase = "Running"


\* C5: once the workload has been reconciled successfully, the reserved keys
\* are in its Secret and not in its ConfigMap in every state that reconcile
\* invocations, sync-env jobs and sync-secret jobs can reach.
C5_ReservedKeysAlways == everRunning => ReservedKeysInPlace

\* the five sub-resources are what a single reconcile of the descriptor leaves
Converged ==
    /\ ReservedKeysInPlace
    /\ deployment.exists /\ deployment.body = BuildDeployment(w)
    /\ service.exists
    /\ ingressRoute.exists /\ ingressRoute.body = BuildIngressRoute(w)

\* C6: when two workers have each run one reconcile invocation of the same
\* descriptor, in any interleaving of their API calls, both invocations have
\* completed all five steps and the sub-resources are those a single
\* reconcile produces.
C6_ConcurrentReconcilesComplete ==
    (/\ pc["A"] = "done" /\ invocations["A"] = 1
     /\ pc["B"] = "done" /\ invocations["B"] = 1) =>
        /\ AllSucceeded("A")
        /\ AllSucceeded("B")
        /\ Converged


(***************************************************************************)
(* Properties of the verification run                                      *)
(***************************************************************************)
ProvisioningPositions == {"create_service", "create_certificate", "create_ingressroute"}

\* no attempt of the run of claim c has found both records
NeverSucceeded(c) == \A j \in 1..Len(attemptLog[c]) : ~attemptLog[c][j].ok

\* C8: when the TXT check and the CNAME check of a claim both succeed for the
\* first time on attempt k, then k is at most 12, the run has made exactly k
\* attempts and makes no other (it is provisioning or over), the first status
\* written is success, and CreateIngressRoute has been called exactly once;
\* and CreateIngressRoute is called in no other case.
C8_SuccessOnAttemptK ==
    \A c \in Claims :
        /\ \A k \in 1..Len(attemptLog[c]) :
              attemptLog[c][k].ok =>
                  /\ k = Len(attemptLog[c])
                  /\ k <= MaxAttempts
                  /\ attempt[c] = k
                  /\ vpc[c] \in ProvisioningPositions \cup {"create_failed", "done"}
                  /\ dbWrites[c] # <<>>
                  /\ dbWrites[c][1] = DomainStatusSuccess
                  /\ provisioned[c] = 1
        /\ NeverSucceeded(c) => provisioned[c] = 0

\* the checks of a claim succeeded on the third attempt and the claim is
\* provisioned
C8_Witness ==
    /\ Len(attemptLog["c1"]) = 3
    /\ attemptLog["c1"][3].ok
    /\ vpc["c1"] = "done"
    /\ dbStatus["c1"] = DomainStatusSuccess
    /\ provisioned["c1"] = 1
    /\ cdResources["c1"] = {"service", "certificate", "ingressroute"}

\* C9: attempt number j of a run happens after j waits of 5, so none before
\* the first wait and the twelfth at 60; a run whose checks never both
\* succeed makes at most 12 attempts, keeps the status pending and writes
\* nothing until it is over, and is over only after exactly 12 attempts, with
\* error as the only status written and persisted, and without any call of
\* CreateIngressRoute.
C9_ExhaustionAfterTwelveAttempts ==
    \A c \in Claims :
        /\ Len(attemptLog[c]) = attempt[c]
        /\ attempt[c] <= MaxAttempts
        /\ \A j \in 1..Len(attemptLog[c]) : attemptLog[c][j].at = SleepSeconds * j
        /\ (NeverSucceeded(c) /\ vpc[c] \notin {"none", "done"}) =>
              /\ dbStatus[c] = DomainStatusPending
              /\ cdStatus[c] = DomainStatusPending
              /\ dbWrites[c] = <<>>
        /\ (NeverSucceeded(c) /\ vpc[c] = "done") =>
              /\ attempt[c] = MaxAttempts
              /\ elapsed[c] = MaxAttempts * SleepSeconds
              /\ dbWrites[c] = <<DomainStatusError>>
              /\ dbStatus[c] = DomainStatusError
              /\ cdStatus[c] = DomainStatusError
              /\ provisioned[c] = 0
              /\ cdResources[c] = {}

\* a run is over after twelve attempts without success
C9_Witness ==
    /\ vpc["c2"] = "done"
    /\ NeverSucceeded("c2")
    /\ Len(attemptLog["c2"]) = 12
    /\ attemptLog["c2"][12].at = 60
    /\ dbStatus["c2"] = DomainStatusError

\* the order in which CreateIngressRoute creates the sub-resources
CreateOrder == <<"service", "certificate", "ingressroute">>

\* the Create calls of claim c that failed
FailedCalls(c) == {i \in 1..Len(createCalls[c]) : createCalls[c][i].failed}

\* C10 as stated: a persisted status that is success or error never changes.
C10_StatusChangesOnce ==
    [][\A c \in Claims :
          dbStatus[c] \in {DomainStatusSuccess, DomainStatusError} =>
              dbStatus'[c] = dbStatus[c]]_vars

\* C10 amended: the persisted status of a claim only moves from pending to
\* success, from pending to error, and from success to error, the last only
\* when a creation of CreateIngressRoute fails; error is terminal, the status
\* never returns to pending, at most two statuses are ever written, and a
\* run that is over has left success or error.
C10_StatusTransitions ==
    [][\A c \in Claims :
          /\ dbStatus[c] # dbStatus'[c] =>
                <<dbStatus[c], dbStatus'[c]>> \in
                    { <<"none", DomainStatusPending>>,
                      <<DomainStatusPending, DomainStatusSuccess>>,
                      <<DomainStatusPending, DomainStatusError>>,
                      <<DomainStatusSuccess, DomainStatusError>> }
          /\ (dbStatus[c] = DomainStatusSuccess /\ dbStatus'[c] = DomainStatusError) =>
                /\ vpc[c] = "create_failed"
                /\ FailedCalls(c) # {}
                /\ cdResources'[c] # {"service", "certificate", "ingressroute"}
          /\ Len(dbWrites'[c]) <= 2
          /\ vpc'[c] = "done" =>
                dbStatus'[c] \in {DomainStatusSuccess, DomainStatusError}]_vars

\* a claim was verified, could not be provisioned and ended as error
C10_Witness ==
    /\ vpc["c1"] = "done"
    /\ dbWrites["c1"] = <<DomainStatusSuccess, DomainStatusError>>
    /\ dbStatus["c1"] = DomainStatusError


(***************************************************************************)
(* Properties of provisioning                                              *)
(***************************************************************************)
\* In the current StartVerification (part_000): when verification has
\* succeeded and one of the three creations (service, certificate, routing
\* rule) fails, it is the last Create call of the run, CreateIngressRoute
\* returns the error of that creation, and the run then ends with the
\* in-memory and the persisted status of the claim error, written after
\* success.
ProvisioningFailureStops ==
    \A c \in Claims :
        /\ Len(createCalls[c]) <= Len(CreateOrder)
        /\ \A i \in 1..Len(createCalls[c]) : createCalls[c][i].kind = CreateOrder[i]
        /\ \A i \in FailedCalls(c) :
             /\ i = Len(createCalls[c])
             /\ createErr[c] = CreateFailed(CreateOrder[i])
             /\ vpc[c] \in {"create_failed", "done"}
             /\ vpc[c] = "create_failed" => dbWrites[c] = <<DomainStatusSuccess>>
             /\ vpc[c] = "done" =>
                   /\ cdStatus[c] = DomainStatusError
                   /\ dbStatus[c] = DomainStatusError
                   /\ dbWrites[c] = <<DomainStatusSuccess, DomainStatusError>>
             /\ cdResources[c] = {CreateOrder[j] : j \in 1..(i - 1)}

\* C11: when verification has succeeded and one of the three creations
\* fails, the remaining creations are not attempted (the failed Create is the
\* last of the run), CreateIngressRoute returns the error, and the run ends
\* with the in-memory and the persisted status of the claim error (of a
\* record that is still there).  Stated for the StartVerification of
\* k8s/customdomain.go, which calls CreateIngressRoute as a statement.
C11_ProvisioningFailureEndsAsError ==
    \A c \in Claims :
        \A i \in FailedCalls(c) :
            /\ i = Len(createCalls[c])
            /\ createErr[c] \notin {"", NotReturned}
            /\ vpc[c] = "done" =>
                  /\ cdStatus[c] = DomainStatusError
                  /\ dbStatus[c] \in {DomainStatusError, "none"}

\* the goroutine of claim c has been started and has not ended
Started(c) == vpc[c] \notin {"none", "created", "done"}

\* the run of claim c has ended with a terminal status, in memory and persisted
Terminated(c) ==
    /\ vpc[c] = "done"
    /\ cdStatus[c] \in {DomainStatusSuccess, DomainStatusError}
    /\ dbStatus[c] = cdStatus[c]
    /\ attempt[c] <= MaxAttempts

\* C12: every started verification run terminates: under fair scheduling of
\* the goroutine, with lookups that return, it reaches a terminal status
\* (success or error) after at most 12 attempts; no step of the run waits for
\* anything but its own sleep, lookups and API calls.
C12_RunTerminates == \A c \in Claims : Started(c) ~> Terminated(c)

\* a run that used its twelve attempts and ended
C12_Witness ==
    /\ Terminated("c2")
    /\ attempt["c2"] = MaxAttempts
    /\ elapsed["c2"] = MaxAttempts * SleepSeconds


(***************************************************************************)
(* Properties of DeleteCustomDomain                                        *)
(***************************************************************************)
\* the results of the sub-resource deletions DeleteCustomDomain issued for c
DeleteResults(c) == {delLog[c][i].err : i \in 1..Len(delLog[c])}

\* C13: DeleteCustomDomain on an existing claim whose record removal works
\* removes the record and returns nil for every combination of existing and
\* missing sub-resources: the only error the call can return is the one of
\* the record removal, returned before any sub-resource deletion is issued;
\* a failed or not-found sub-resource deletion never makes the call fail.
C13_DeleteIgnoresSubResourceResults ==
    \A c \in Claims :
        dpc[c] = "returned" =>
            /\ delErr[c] \in {"", "delete failed"}
            /\ delErr[c] = "delete failed" => delLog[c] = <<>> /\ dbStatus[c] # "none"
            /\ delErr[c] = "" => dbStatus[c] = "none"

\* a call that returned nil although one deletion failed and another found nothing
C13_Witness ==
    /\ dpc["c1"] = "returned"
    /\ delErr["c1"] = ""
    /\ dbStatus["c1"] = "none"
    /\ delCall["c1"].resources # {}
    /\ {"error", "not found"} \subseteq DeleteResults("c1")

\* C14: after DeleteCustomDomain returned nil for a claim whose verification
\* run had ended before the call (status success or error), the claim record
\* and the three sub-resources custom-domain-{claim id} are absent.
C14_NothingLeftAfterDelete ==
    \A c \in Claims :
        (dpc[c] = "returned" /\ delErr[c] = "" /\ delCall[c].vpc = "done") =>
            /\ dbStatus[c] = "none"
            /\ cdResources[c] = {}


(***************************************************************************)
(* Properties of the Processor                                             *)
(***************************************************************************)
\* the Jobs waiting in the buffer
Queued == {queue[i] : i \in 1..Len(queue)}

\* the workers running Do() of Job j
RunningOn(j) == {k \in ProcWorkers : wpc[k] = "running" /\ wjob[k] = j}

\* the submitters inside Submit with Job j
SubmittingOf(j) == {s \in Submitters : spc[s] = "submit" /\ sjob[s] = j}

\* the Job instances constructed so far
ConstructedJobs == {j \in JobInstances : j.n <= made[j.by]}

Closing == procState \in {"closing", "closed"}

\* the number of places (buffer slots, workers, finished) holding Job j
Places(j) ==
    Cardinality({i \in 1..Len(queue) : queue[i] = j}) + Cardinality(RunningOn(j))
    + (IF finished[j] # "" THEN 1 ELSE 0)

\* every constructed Job is with its submitter, refused by a closing
\* Processor, or accepted; an accepted Job is in exactly one place
NoJobDropped ==
    /\ \A j \in ConstructedJobs :
         \/ SubmittingOf(j) # {} /\ j \notin accepted \cup rejected
         \/ j \in rejected /\ j \notin accepted /\ Closing
         \/ j \in accepted /\ j \notin rejected /\ Places(j) = 1
    /\ accepted \cup rejected \subseteq ConstructedJobs

\* a Submit that finds the buffer full neither enqueues nor returns in this step
FullBufferBlocks ==
    \A s \in Submitters :
        (spc[s] = "submit" /\ Len(queue) = BufferSize /\ ~Closing) =>
            /\ spc'[s] = "submit"
            /\ sjob'[s] = sjob[s]
            /\ sjob[s] \notin accepted'
            /\ sjob[s] \notin {queue'[i] : i \in 1..Len(queue')}

\* C15: the buffer never holds more Jobs than its size; a Submit issued while
\* the buffer is full does not enqueue and does not return before a worker
\* has taken a Job out; no submitted Job is dropped.
C15_BoundedBufferBackpressure ==
    /\ [](Len(queue) <= BufferSize /\ NoJobDropped)
    /\ [][FullBufferBlocks]_vars

\* a Submit waiting at a full buffer while every worker runs a Job
C15_Witness ==
    /\ procState = "started"
    /\ Len(queue) = BufferSize
    /\ \A k \in ProcWorkers : wpc[k] = "running"
    /\ \E s \in Submitters : spc[s] = "submit" /\ sjob[s] \notin accepted

\* C16: Close returns only after every Job whose Do() had started before the
\* call has finished (and every worker loop has ended), and no Job whose
\* Submit comes after the beginning of Close is accepted or executed.
C16_CloseWaitsAndRefuses ==
    /\ [](procState = "closed" =>
            /\ \A j \in atClose : finished[j] # ""
            /\ \A k \in ProcWorkers : wpc[k] # "running")
    /\ [](\A j \in JobInstances : doCalls[j] > 0 => j \in accepted)
    /\ [][Closing => accepted' = accepted]_vars

\* Close returned after waiting for a running Job, and a later Submit was refused
C16_Witness ==
    /\ procState = "closed"
    /\ atClose # {}
    /\ rejected # {}

\* C17: Do() of a submitted Job is called at most once, by one worker, whether
\* it returns nil or an error: a Job that has finished, with either result, is
\* neither in the buffer nor running again.
C17_DoAtMostOnce ==
    \A j \in JobInstances :
        /\ doCalls[j] <= 1
        /\ Cardinality(RunningOn(j)) <= 1
        /\ RunningOn(j) # {} => doCalls[j] = 1 /\ j \notin Queued /\ finished[j] = ""
        /\ finished[j] # "" => doCalls[j] = 1 /\ j \notin Queued
        /\ j \in Queued => doCalls[j] = 0

\* one Job returned an error, another nil, and two workers run Do() of two
\* more Jobs at the same time
C17_Witness ==
    /\ \E j \in JobInstances : finished[j] = "error"
    /\ \E j \in JobInstances : finished[j] = "nil"
    /\ \E k, l \in ProcWorkers :
         /\ k # l
         /\ wpc[k] = "running" /\ wpc[l] = "running"
         /\ wjob[k] # wjob[l]


(***************************************************************************)
(* Properties of the functions of the descriptor                           *)
(***************************************************************************)
\* C19: the derived name w-{workloadID}-{ownerID} is globally unique: two
\* descriptors with different (workloadID, ownerID) pairs never get the same
\* name, so they share no sub-resource.
C19_NamesUnique ==
    (fnOut # NotApplied /\ fnIn.a # fnIn.b) =>
        /\ fnOut.a.deployment # fnOut.b.deployment
        /\ fnOut.a.configMap # fnOut.b.configMap
        /\ fnOut.a.secret # fnOut.b.secret

\* fnOut is the compute resource EnsureDeployment built from fnIn
Built == fnOut # NotApplied /\ ~fnOut.panic

\* C20: the compute resource built by EnsureDeployment defaults each unset
\* field on its own: the replica count is MaxReplicas when MaxReplicas > 0 and
\* 1 otherwise; CPU, memory and ephemeral storage are the descriptor's value
\* when set and "1", "500Mi", "2Gi" when not, with limits equal to requests.
C20_DefaultsIndependent ==
    Built =>
        LET o == fnOut.object
        IN  /\ Positive(fnIn.MaxReplicas) =>
                   (fnIn.MaxReplicas.hi = 0 /\ o.replicas = fnIn.MaxReplicas.lo)
            /\ ~Positive(fnIn.MaxReplicas) => o.replicas = 1
            /\ o.requests.cpu =
                   ParseQuantity(IF fnIn.AssignedCPU = "" THEN "1" ELSE fnIn.AssignedCPU)
            /\ o.requests.memory =
                   ParseQuantity(IF fnIn.AssignedMemory = "" THEN "500Mi"
                                 ELSE fnIn.AssignedMemory)
            /\ o.requests.ephemeralStorage =
                   ParseQuantity(IF fnIn.AssignedDisk = "" THEN "2Gi" ELSE fnIn.AssignedDisk)
            /\ o.limits = o.requests

(***************************************************************************)
(* Properties of claim creation                                            *)
(***************************************************************************)
\* NewCustomDomain returned a claim
ClaimCreated == fnOut.applied /\ fnOut.err = ""

\* the returned claim and the stored row are pending and carry the record
\* name `name` and the value generated from the token
PersistedPendingWith(name) ==
    /\ fnOut.cd.TXTName = name
    /\ fnOut.cd.Status = DomainStatusPending
    /\ fnOut.row = CustomDomainRow(SubSeq(fnIn.random[1], 1, 8), fnIn.userUID,
                                   fnIn.domain, fnIn.target, name,
                                   "combinator-verify=" \o fnIn.random[2],
                                   DomainStatusPending)

\* C21 as stated: for a claim on domain D the generated TXT record name is
\* "_verify." followed by D, and the claim is persisted with status pending
\* together with that name and the generated value.
C21_TXTNameIsVerifyPrefix ==
    ClaimCreated => PersistedPendingWith("_verify." \o fnIn.domain)

\* C21 amended: for a claim on domain D the generated TXT record name is
\* "_combinator-verify." followed by D, and the claim is persisted with
\* status pending together with that name and the generated value.
C21_TXTNameIsCombinatorVerifyPrefix ==
    ClaimCreated => PersistedPendingWith("_combinator-verify." \o fnIn.domain)

\* a claim on example.com was created and its record name is
\* _combinator-verify.example.com
C21_Witness ==
    /\ ClaimCreated
    /\ fnIn.domain = "example.com"
    /\ fnOut.row.txtName = "_combinator-verify.example.com"
    /\ fnOut.row.status = "pending"

(***************************************************************************)
(* Properties of the accept-task endpoint                                  *)
(***************************************************************************)
\* the handler answers every body with 400 and the error of the binding:
\* no body binds, so that the branch that answers 200 is never taken
AcceptTaskAnswersBadRequest ==
    fnOut.applied =>
        /\ fnOut.code = StatusBadRequest
        /\ fnOut.error = ShouldBindJSON(fnIn).err
        /\ fnOut.error # ""

(***************************************************************************)
(* Properties of the single ensure steps                                   *)
(***************************************************************************)
\* the invocation of worker p takes a step of ensure step number i
StepOf(p, i) == StepAt(pc[p]) = i /\ pc'[p] # pc[p]

\* the writes the invocation of worker p has issued for a kind of resource
WritesOf(p, kind) ==
    {i \in 1..Len(writes[p]) : writes[p][i].kind = kind}

\* C23: EnsureService creates the Service only when the Get reports
\* NotFound; when a Service exists it issues no write and leaves the Service
\* as it is, whatever its port and selector.
C23_ServiceCreatedOnlyIfAbsent ==
    [][\A p \in Workers : StepOf(p, 4) =>
          /\ pc'[p] = "svc_create" => ~service.exists
          /\ (pc[p] = "svc_get" /\ service.exists) =>
                /\ service' = service
                /\ writes'[p] = writes[p]
          /\ service' # service =>
                /\ pc[p] = "svc_create"
                /\ ~service.exists
                /\ service'.body = BuildService(w)
          /\ \A i \in 1..Len(writes'[p]) :
                writes'[p][i].kind = "service" => writes'[p][i].verb = "create"]_vars

\* EnsureService returned nil on a Service with another port, without a write
C23_Witness ==
    /\ pc["A"] = "ir_get"
    /\ results["A"][4] = [step |-> "service", err |-> ""]
    /\ service.exists
    /\ service.body.port # w.Port
    /\ WritesOf("A", "service") = {}

\* the entries of a map under its keys that are not reserved
NonReserved(m) == [k \in (DOMAIN m) \ ReservedKeySet |-> m[k]]

HasReserved(m) == (DOMAIN m) \cap ReservedKeySet # {}

\* the ensure step in progress has just returned nil
ReturnedNil(p) == results'[p] # results[p] /\ results'[p][Len(results'[p])].err = ""

\* C24: EnsureConfigMap creates an empty ConfigMap when there is none; when
\* there is one it removes exactly the reserved keys found in it, leaves every
\* other key with its value, and issues an update only if a reserved key was
\* there (no write otherwise).
C24_ConfigMapStripsReservedOnly ==
    [][\A p \in Workers : StepOf(p, 1) =>
          /\ pc[p] = "cm_get" => (configMap' = configMap /\ writes'[p] = writes[p])
          /\ pc'[p] = "cm_create" => ~configMap.exists
          /\ pc'[p] = "cm_update" => (configMap.exists /\ HasReserved(configMap.body))
          /\ (pc[p] = "cm_get" /\ ReturnedNil(p)) =>
                (configMap.exists /\ ~HasReserved(configMap.body))
          /\ (pc[p] = "cm_create" /\ ReturnedNil(p)) =>
                (configMap'.exists /\ configMap'.body = EmptyMap)
          /\ (pc[p] = "cm_update" /\ ReturnedNil(p)) =>
                configMap'.body = NonReserved(configMap.body)
          /\ configMap' # configMap => (pc[p] \in {"cm_create", "cm_update"} /\ ReturnedNil(p))
      ]_vars

\* EnsureConfigMap has updated a ConfigMap that held reserved keys and a user
\* key, and the user key is what is left
C24_Witness ==
    /\ pc["A"] = "sec_get"
    /\ writes["A"] = <<[kind |-> "configmap", verb |-> "update", err |-> "", changed |-> TRUE]>>
    /\ configMap.body = [k \in UserKeys |-> UserVal]

\* the value the descriptor gives a reserved key
ReservedValue(k) ==
    CASE k = "COMBINATOR_API_ENDPOINT" -> "http://combinator.combinator.svc.cluster.local:8899"
      [] k = "RAYSAIL_UID" -> w.OwnerID
      [] k = "RAYSAIL_SECRET_KEY" -> w.OwnerSK

\* data with the reserved keys overwritten by the descriptor's values
WithReserved(data) ==
    [k \in (DOMAIN data) \cup ReservedKeySet |->
        IF k \in ReservedKeySet THEN ReservedValue(k) ELSE data[k]]

\* C25: EnsureSecret creates the Secret with exactly the three reserved keys
\* when there is none; when there is one the result is its data with the
\* three reserved keys overwritten by the descriptor's values and every other
\* key left with its value.
C25_SecretMergesReserved ==
    [][\A p \in Workers : StepOf(p, 2) =>
          /\ pc[p] = "sec_get" => (secret' = secret /\ writes'[p] = writes[p])
          /\ pc'[p] = "sec_create" => ~secret.exists
          /\ pc'[p] = "sec_update" => secret.exists
          /\ (pc[p] = "sec_create" /\ ReturnedNil(p)) =>
                (secret'.exists /\ secret'.body = WithReserved(EmptyMap))
          /\ (pc[p] = "sec_update" /\ ReturnedNil(p)) =>
                secret'.body = WithReserved(secret.body)
          /\ secret' # secret => (pc[p] \in {"sec_create", "sec_update"} /\ ReturnedNil(p))
      ]_vars

\* EnsureSecret has updated a Secret in which a user had set a reserved key
\* and a key of their own: the reserved key has the descriptor's value, the
\* user's key its old one
C25_Witness ==
    /\ pc["A"] = "dep_get"
    /\ writes["A"][Len(writes["A"])] =
          [kind |-> "secret", verb |-> "update", err |-> "", changed |-> TRUE]
    /\ UserKeys \subseteq DOMAIN secret.body
    /\ \A k \in UserKeys : secret.body[k] = UserVal
    /\ secret.body["RAYSAIL_UID"] = w.OwnerID

\* what the ensure step in progress has just returned
Returned(p) == results'[p][Len(results'[p])].err

\* C26: EnsureIngressRoute creates the IngressRoute when there is none; when
\* there is one, the update it sends carries the resourceVersion it read from
\* the existing IngressRoute in the same invocation, so that an update whose
\* read is stale (the IngressRoute was written since) is rejected with a
\* conflict and stores nothing.
C26_RouteUpdateCarriesToken ==
    [][\A p \in Workers :
          /\ (pc[p] = "ir_update" /\ pc'[p] = pc[p]) => existing'[p] = existing[p]
          /\ StepOf(p, 5) =>
                /\ pc'[p] = "ir_create" => ~ingressRoute.exists
                /\ pc'[p] = "ir_update" =>
                      /\ ingressRoute.exists
                      /\ existing'[p].rv = ingressRoute.rv
                      /\ existing'[p].body = BuildIngressRoute(w)
                /\ (pc[p] = "ir_create" /\ ReturnedNil(p)) =>
                      (~ingressRoute.exists /\ ingressRoute'.body = BuildIngressRoute(w))
                /\ pc[p] = "ir_update" =>
                      /\ writes'[p] # writes[p]
                      /\ existing[p].rv # ingressRoute.rv =>
                            (Returned(p) = "Conflict" /\ ingressRoute' = ingressRoute)
                      /\ ReturnedNil(p) =>
                            (existing[p].rv = ingressRoute.rv
                             /\ ingressRoute'.body = BuildIngressRoute(w))
      ]_vars

\* the update of worker A was rejected with a conflict: worker B had written
\* the IngressRoute after A had read it
C26_Witness ==
    /\ pc["A"] = "done"
    /\ results["A"][Len(results["A"])] = [step |-> "ingressroute", err |-> "Conflict"]
    /\ \E i \in WritesOf("B", "ingressroute") :
          writes["B"][i].verb = "update" /\ writes["B"][i].changed
    /\ ingressRoute.body = BuildIngressRoute(w)

\* the placement of a Deployment is the one the descriptor asks for: the
\* preference for the node of the combinator pod, and the required region
\* exactly when the descriptor names one
PlacementOf(d) ==
    /\ d.podAffinityPreferred = "combinator"
    /\ w.MainRegion = "" => d.nodeAffinityRequired = <<>>
    /\ w.MainRegion # "" => d.nodeAffinityRequired = <<w.MainRegion>>

\* C27: EnsureDeployment creates the Deployment when the Get reports
\* NotFound, updates it in place when the Get succeeds, and on any other
\* error of the Get returns that error without a create or an update; the
\* Deployment it writes requires the region iff the descriptor's region hint
\* is not empty, and always prefers the node of the combinator pod.
C27_DeploymentCreateOrUpdate ==
    [][\A p \in Workers : StepOf(p, 3) =>
          /\ pc[p] = "dep_get" =>
                /\ deployment' = deployment /\ writes'[p] = writes[p]
                /\ \/ pc'[p] = "dep_create" /\ ~deployment.exists
                   \/ pc'[p] = "dep_update" /\ deployment.exists
                   \/ pc'[p] = "done" /\ Returned(p) = "ServerError"
          /\ pc[p] \in {"dep_create", "dep_update"} =>
                /\ writes'[p] = Append(writes[p],
                      [kind |-> "deployment",
                       verb |-> IF pc[p] = "dep_create" THEN "create" ELSE "update",
                       err |-> Returned(p), changed |-> deployment' # deployment])
                /\ ReturnedNil(p) =>
                      /\ deployment'.exists
                      /\ deployment'.body.name = Name(w)
                      /\ deployment'.body.image = w.Image
                      /\ PlacementOf(deployment'.body)
                /\ ~ReturnedNil(p) => deployment' = deployment
      ]_vars

\* EnsureDeployment has updated the Deployment of an earlier version of a
\* descriptor without a region hint
C27_Witness ==
    /\ pc["A"] = "svc_get"
    /\ writes["A"][Len(writes["A"])] =
          [kind |-> "deployment", verb |-> "update", err |-> "", changed |-> TRUE]
    /\ w.MainRegion = ""
    /\ deployment.body.image = w.Image
    /\ deployment.body.nodeAffinityRequired = <<>>

(***************************************************************************)
(* Properties of DeleteAll                                                 *)
(***************************************************************************)
\* the sub-resources of the workload, in the order DeleteAll deletes them
DeleteOrder == <<"deployment", "service", "configmap", "secret", "ingressroute">>

\* none of the five sub-resources exists
NothingExists == \A i \in 1..Len(StepOrder) : ~Exists(i)

\* C28: a DeleteAll call issues the Delete of each of the five sub-resources
\* whatever the single Deletes return (NotFound or another error stops
\* nothing); and a call made when nothing exists changes nothing in the
\* cluster and reports no failure.
C28_DeleteAllAttemptsEverything ==
    [][\A p \in Workers :
          /\ (pc'[p] = "deleted" /\ pc[p] # "deleted") =>
                /\ [i \in 1..Len(writes'[p]) |-> writes'[p][i].kind] = DeleteOrder
                /\ \A i \in 1..Len(writes'[p]) : writes'[p][i].verb = "delete"
          /\ (NothingExists /\ pc'[p] # pc[p]) =>
                /\ clusterVars' = clusterVars
                /\ status' = status /\ results' = results /\ reported' = reported
      ]_vars

\* a second DeleteAll call has returned in which every Delete was answered
\* NotFound, after a first call in which a Delete had failed
C28_Witness ==
    /\ pc["A"] = "deleted"
    /\ invocations["A"] = 2
    /\ failures = 1
    /\ Len(writes["A"]) = 5
    /\ \A i \in 1..5 : writes["A"][i].err = "NotFound"
    /\ NothingExists

(***************************************************************************)
(* Properties of one verification attempt                                  *)
(***************************************************************************)
\* C29: in every attempt both VerifyTXT and VerifyCNAME are called, whatever
\* the other returns; and a lookup error in either check counts like a record
\* that does not match: the check is false, the attempt fails, the status
\* stays pending with nothing persisted, and the loop goes on to the next
\* attempt while the budget of 12 lasts.
C29_BothChecksEvaluated ==
    fnOut.applied =>
        /\ fnOut.checks.calls = <<"VerifyTXT", "VerifyCNAME">>
        /\ fnIn.txt.err => ~fnOut.checks.txtVerified
        /\ fnIn.cn.err => ~fnOut.checks.cnameVerified
        /\ (fnIn.txt.err \/ fnIn.cn.err) =>
              /\ ~fnOut.ok
              /\ fnOut.status = DomainStatusPending
              /\ fnOut.persisted = <<>>
              /\ fnIn.i < MaxAttempts => fnOut.next = "sleep"
              /\ fnIn.i = MaxAttempts => fnOut.next = "exhausted"

\* the third attempt of a claim failed on a TXT lookup error although the
\* CNAME matched, and the loop goes on
C29_Witness ==
    /\ fnOut.applied
    /\ fnIn.i = 3
    /\ fnIn.txt.err
    /\ fnOut.checks.cnameVerified
    /\ ~fnOut.ok
    /\ fnOut.next = "sleep"

\* a name ends with a dot
EndsWithDot(name) == Len(name) > 0 /\ SubSeq(name, Len(name), Len(name)) = "."

\* two names are equal once the trailing dot of each, if it has one, is
\* left out
SameName(a, b) ==
    LET la == IF EndsWithDot(a) THEN Len(a) - 1 ELSE Len(a)
        lb == IF EndsWithDot(b) THEN Len(b) - 1 ELSE Len(b)
    IN  la = lb /\ \A i \in 1..la : SubSeq(a, i, i) = SubSeq(b, i, i)

\* C30: the CNAME check passes exactly when the canonical name the lookup
\* returned and the target of the claim are equal after one trailing dot is
\* removed from each, whether or not the lookup result and the target end
\* with a dot; a lookup that returns another name never passes.
C30_CNAMETrailingDot ==
    (fnOut.applied /\ ~fnIn.cn.err) =>
        (fnOut.checks.cnameVerified <=> SameName(fnIn.cn.records[1], ClaimTarget(fnIn.c)))

\* the check passed for a target entered with a trailing dot on a lookup
\* result without one
C30_Witness ==
    /\ fnOut.applied
    /\ ~fnIn.cn.err
    /\ EndsWithDot(ClaimTarget(fnIn.c))
    /\ ~EndsWithDot(fnIn.cn.records[1])
    /\ fnOut.checks.cnameVerified

(***************************************************************************)
(* Properties of provisioning and of deletion during a run                 *)
(***************************************************************************)
\* C31: provisioning creates its three resources in the order external-name
\* service, certificate request, routing rule: the i-th Create call of a run
\* is for the i-th of them and is issued only after every earlier one was
\* created successfully; each object handed to Create is named
\* custom-domain-{claim id} and labelled with the owner of the claim, and is
\* in the cluster right after a call that succeeded.
C31_ProvisioningOrderAndLabels ==
    [][\A c \in Claims :
          createCalls'[c] # createCalls[c] =>
              LET i == Len(createCalls'[c])
                  call == createCalls'[c][i]
              IN  /\ i = Len(createCalls[c]) + 1
                  /\ createCalls'[c] = Append(createCalls[c], call)
                  /\ i <= Len(CreateOrder)
                  /\ call.kind = CreateOrder[i]
                  /\ call.object.kind = call.kind
                  /\ \A j \in 1..(i - 1) :
                        /\ createCalls[c][j].kind = CreateOrder[j]
                        /\ ~createCalls[c][j].failed
                  /\ call.object.name = "custom-domain-" \o c
                  /\ "user-uid" \in DOMAIN call.object.labels
                  /\ call.object.labels["user-uid"] = (IF c = "c1" THEN "u1" ELSE "u2")
                  /\ ~call.failed => cdResources'[c] = cdResources[c] \cup {call.kind}
                  /\ call.failed => cdResources'[c] = cdResources[c]]_vars

\* all three resources of claim c2 were created, in order, each named
\* custom-domain-c2 and labelled with the owner u2
C31_Witness ==
    /\ Len(createCalls["c2"]) = 3
    /\ \A i \in 1..3 :
          /\ createCalls["c2"][i].kind = CreateOrder[i]
          /\ ~createCalls["c2"][i].failed
          /\ createCalls["c2"][i].object.name = "custom-domain-c2"
          /\ createCalls["c2"][i].object.labels["user-uid"] = "u2"
    /\ cdResources["c2"] = {"service", "certificate", "ingressroute"}

\* the jw238dns calls of kind op the function `by` made for claim c
DNS01CallsOf(c, by, op) ==
    {i \in 1..Len(dnsCalls[c]) : dnsCalls[c][i].by = by /\ dnsCalls[c][i].op = op}

\* the TXT record of claim c was registered when the claim was created
Registered(c) ==
    \E i \in DNS01CallsOf(c, "NewCustomDomain", "AddTXTRecord") : dnsCalls[c][i].ok

\* a deletion of claim c removed the TXT record that was registered
RemovedByDelete(c) ==
    \E i \in DNS01CallsOf(c, "NewCustomDomain", "AddTXTRecord") :
        \E j \in DNS01CallsOf(c, "DeleteCustomDomain", "DeleteTXTRecord") :
            i < j /\ dnsCalls[c][j].ok

\* C32 as stated: after a run reached success or error, the TXT record
\* registered for the claim at creation no longer exists in the DNS service.
C32_TXTRecordCleanedUp ==
    \A c \in Claims :
        (vpc[c] = "done" /\ dbStatus[c] \in {DomainStatusSuccess, DomainStatusError}) =>
            ~dnsTXT[c]

\* C32 amended: the TXT record is cleaned up only when verification
\* succeeds: a run that ended after a successful check has, with a DNS client,
\* called DeleteTXTRecord once, and the record is gone if that call worked; a
\* run that ended by exhausting its attempts has made no cleanup call, and a
\* record registered at creation still exists unless a deletion of the claim
\* removed it.
C32_TXTRecordCleanedUpOnSuccessOnly ==
    \A c \in Claims :
        vpc[c] = "done" =>
            LET cleanups == DNS01CallsOf(c, "StartVerification", "DeleteTXTRecord")
            IN  /\ ~NeverSucceeded(c) =>
                      /\ dbStatus[c] \in {DomainStatusSuccess, "none"}
                      /\ dbStatus[c] = "none" => dpc[c] # "idle"
                      /\ DNS01Client =>
                            /\ Cardinality(cleanups) = 1
                            /\ \A i \in cleanups : dnsCalls[c][i].ok => ~dnsTXT[c]
                /\ NeverSucceeded(c) =>
                      /\ dbStatus[c] \in {DomainStatusError, "none"}
                      /\ dbStatus[c] = "none" => dpc[c] # "idle"
                      /\ cleanups = {}
                      /\ dnsTXT[c] = (Registered(c) /\ ~RemovedByDelete(c))

\* a run whose record was registered exhausted its attempts and left the
\* record in the DNS service
C32_Witness ==
    /\ vpc["c1"] = "done"
    /\ attempt["c1"] = MaxAttempts
    /\ dbStatus["c1"] = DomainStatusError
    /\ Registered("c1")
    /\ dnsTXT["c1"]

\* the three sub-resources CreateIngressRoute provisions
SubResources == {CreateOrder[j] : j \in 1..Len(CreateOrder)}

\* C33 as stated: whenever the persisted status of a claim is success, its
\* service, certificate and routing rule exist.
C33_SuccessImpliesProvisioned ==
    \A c \in Claims :
        dbStatus[c] = DomainStatusSuccess => cdResources[c] = SubResources

\* C33 amended: whenever the persisted status of a claim is success, the
\* checks of its run have succeeded and CreateIngressRoute has been entered;
\* once CreateIngressRoute has returned nil all three sub-resources exist,
\* and until it returns exactly the resources created so far exist, not yet
\* all three, so that a caller polling the status sees success for a claim
\* that is not yet provisioned.
C33_SuccessImpliesProvisionedOnceReturned ==
    \A c \in Claims :
        dbStatus[c] = DomainStatusSuccess =>
            /\ ~NeverSucceeded(c)
            /\ provisioned[c] = 1
            /\ createErr[c] = "" => cdResources[c] = SubResources
            /\ createErr[c] = NotReturned =>
                  /\ vpc[c] \in ProvisioningPositions
                  /\ cdResources[c] = {CreateOrder[j] : j \in 1..Len(createCalls[c])}
                  /\ cdResources[c] # SubResources

\* the persisted status is success while only the service has been created
C33_Witness ==
    /\ dbStatus["c1"] = DomainStatusSuccess
    /\ vpc["c1"] = "create_certificate"
    /\ cdResources["c1"] = {"service"}

\* the positions of a verification run that has been started and has not ended
InFlightPositions ==
    {"sleep", "check", "exhausted", "create_failed"} \cup ProvisioningPositions

\* C34: deleting a claim while its verification run is in flight leaves
\* nothing behind: once DeleteCustomDomain, called during the run, has
\* returned nil with every sub-resource deletion it issued having worked or
\* found nothing, and the run has ended too, no sub-resource of the claim
\* exists and the claim has no persisted status.
C34_NothingLeftAfterDeleteInFlight ==
    \A c \in Claims :
        ( /\ dpc[c] = "returned"
          /\ delErr[c] = ""
          /\ delCall[c].vpc \in InFlightPositions
          /\ DeleteResults(c) \subseteq {"", "not found"}
          /\ vpc[c] = "done" ) =>
            /\ cdResources[c] = {}
            /\ dbStatus[c] = "none"

\* C35: when provisioning fails at a creation, the resources the earlier
\* creations of the call created stay in the cluster: the failing step
\* removes nothing, the run then ends with status error (persisted too, when
\* the record still exists) and removes nothing either, and a sub-resource
\* of a claim is only ever removed by a Delete call of DeleteCustomDomain.
C35_NoRollbackOnProvisioningFailure ==
    [][\A c \in Claims :
          /\ ( /\ Len(createCalls'[c]) = Len(createCalls[c]) + 1
               /\ createCalls'[c][Len(createCalls'[c])].failed ) =>
                 /\ cdResources'[c] = cdResources[c]
                 /\ vpc'[c] = "create_failed"
          /\ (vpc[c] = "create_failed" /\ vpc'[c] # vpc[c]) =>
                 /\ cdResources'[c] = cdResources[c]
                 /\ vpc'[c] = "done"
                 /\ cdStatus'[c] = DomainStatusError
                 /\ dbStatus[c] # "none" => dbStatus'[c] = DomainStatusError
          /\ ~(cdResources[c] \subseteq cdResources'[c]) =>
                 /\ Len(delLog'[c]) = Len(delLog[c]) + 1
                 /\ cdResources[c] \ cdResources'[c] = {delLog'[c][Len(delLog'[c])].kind}]_vars

\* the creation of the routing rule failed, and the service and the
\* certificate created before it are in the cluster of the claim in error
C35_Witness ==
    /\ FailedCalls("c1") = {3}
    /\ vpc["c1"] = "done"
    /\ dbStatus["c1"] = DomainStatusError
    /\ cdResources["c1"] = {"service", "certificate"}
    /\ dpc["c1"] = "idle"

\* C36: when the removal of the claim record fails, DeleteCustomDomain
\* returns that error at once: the record and the sub-resources of the claim
\* are as before the call, and the call issues no sub-resource deletion,
\* neither in that step nor later.
C36_RecordRemovalFailureTouchesNothing ==
    [][\A c \in Claims :
          /\ (dpc[c] = "idle" /\ dpc'[c] # "idle" /\ failures' = failures + 1) =>
                /\ dpc'[c] = "returned"
                /\ delErr'[c] = "delete failed"
                /\ dbStatus'[c] = dbStatus[c]
                /\ cdResources'[c] = cdResources[c]
                /\ cdResources'[c] = delCall'[c].resources
                /\ delLog'[c] = <<>>
          /\ delErr[c] = "delete failed" =>
                /\ delErr'[c] = delErr[c]
                /\ delLog'[c] = <<>>
                /\ dpc'[c] = "returned"]_vars

\* the removal of the record of a fully provisioned claim failed: the call
\* returned the error, and the record and the three sub-resources are there
C36_Witness ==
    /\ dpc["c1"] = "returned"
    /\ delErr["c1"] = "delete failed"
    /\ delLog["c1"] = <<>>
    /\ dbStatus["c1"] = DomainStatusSuccess
    /\ delCall["c1"].resources = {"service", "certificate", "ingressroute"}
    /\ cdResources["c1"] = {"service", "certificate", "ingressroute"}

(***************************************************************************)
(* Properties of the deploy-workload job                                   *)
(***************************************************************************)
\* Do() of the deploy job has returned
DeployReturned == deploy.pc = "returned"

\* C37 as stated: a deploy-workload job ends in exactly one recorded outcome:
\* the version status is error when reading the version fails; the version
\* status and the worker status are error and Do() returns an error when
\* creating the workload resource fails; otherwise the version is recorded as
\* successfully deployed and Do() returns nil; and every execution updates
\* the status of the version.
C37_DeployEndsInOneRecordedOutcome ==
    DeployReturned =>
        /\ deploy.failed = "get" => deploy.version = "error"
        /\ deploy.failed = "create" =>
              /\ deploy.version = "error"
              /\ deploy.worker = "error"
              /\ deploy.err # ""
        /\ deploy.failed \notin {"get", "create"} =>
              /\ deploy.version = "success"
              /\ deploy.err = ""
        /\ \E i \in 1..Len(deploy.versionWrites) : deploy.versionWrites[i].applied

\* the one write a sequence of status writes consists of: `st`, applied or not
OneWrite(ws, st) == Len(ws) = 1 /\ ws[1].status = st

\* the status a row has after the writes ws, of which it had `had` before
After(had, ws) ==
    IF ws # <<>> /\ ws[Len(ws)].applied THEN ws[Len(ws)].status ELSE had

\* C37 amended: when reading the version fails Do() issues one write of
\* error to the version and returns an error; when creating the workload
\* resource fails it issues one write of error to the version and one to the
\* worker and returns an error; otherwise the resource is created, Do()
\* issues one write of success to the version and returns nil.  Each write
\* may fail, which Do() drops or logs: the version (the worker) has the
\* written status when the write was applied and keeps the status it had
\* when it was not.
C37_DeployOutcomes ==
    DeployReturned =>
        /\ deploy.failed = "get" =>
              /\ OneWrite(deploy.versionWrites, "error")
              /\ deploy.workerWrites = <<>>
              /\ deploy.err # ""
              /\ ~deploy.created
        /\ deploy.failed = "create" =>
              /\ OneWrite(deploy.versionWrites, "error")
              /\ OneWrite(deploy.workerWrites, "error")
              /\ deploy.err # ""
              /\ ~deploy.created
        /\ deploy.failed \notin {"get", "create"} =>
              /\ OneWrite(deploy.versionWrites, "success")
              /\ deploy.versionWrites[1].applied <=> deploy.failed = ""
              /\ deploy.workerWrites = <<>>
              /\ deploy.err = ""
              /\ deploy.created
        /\ deploy.version = After(deploy.had.version, deploy.versionWrites)
        /\ deploy.failed # "" => deploy.worker = After(deploy.had.worker, deploy.workerWrites)

\* the creation of the workload resource failed, and so did the write of
\* error to the version: Do() returned the error of the creation with the
\* version still loading and the worker marked error
C37_Witness ==
    /\ DeployReturned
    /\ deploy.failed = "create"
    /\ deploy.err # ""
    /\ deploy.had.version = "loading"
    /\ deploy.version = "loading"
    /\ deploy.versionWrites = <<[status |-> "error", applied |-> FALSE]>>
    /\ deploy.worker = "error"
    /\ deploy.workerWrites = <<[status |-> "error", applied |-> TRUE]>>

(***************************************************************************)
(* Properties of the ensure steps without a cluster client                 *)
(***************************************************************************)
\* the client the ensure step at a position uses is nil
ClientMissing(position) ==
    IF position = "ir_get" THEN ~DynamicClient ELSE ~K8sClient

\* the error an ensure step without its client returns
NotInitialized(position) ==
    IF position = "ir_get" THEN "dynamic client not initialized"
    ELSE "k8s client not initialized"

\* C39: each of the five ensure steps, called while the client it uses is
\* nil, returns the error that the client is not initialized and touches
\* nothing of the cluster: no object is created or changed, no write is
\* issued, nothing read is carried on, and no API call is made that could
\* fail; the step has returned, and its caller is at the next statement.
C39_EnsureWithoutClientTouchesNothing ==
    [][\A p \in Workers :
          (pc[p] \in EntryPositions /\ pc'[p] # pc[p] /\ ClientMissing(pc[p])) =>
              /\ pc'[p] = AfterStep(StepOrder[StepAt(pc[p])])
              /\ results'[p] = Append(results[p],
                                      [step |-> StepOrder[StepAt(pc[p])],
                                       err |-> NotInitialized(pc[p])])
              /\ UNCHANGED clusterVars
              /\ writes'[p] = writes[p]
              /\ existing'[p] = NoObject
              /\ failures' = failures]_vars

\* the five steps were called without the Kubernetes client and with the
\* dynamic client, on a cluster that holds none of the sub-resources: the
\* first four returned the error with nothing written, and EnsureIngressRoute
\* created the IngressRoute
C39_Witness ==
    /\ ~K8sClient /\ DynamicClient
    /\ pc["A"] = "done"
    /\ results["A"] = <<[step |-> "configmap", err |-> "k8s client not initialized"],
                        [step |-> "secret", err |-> "k8s client not initialized"],
                        [step |-> "deployment", err |-> "k8s client not initialized"],
                        [step |-> "service", err |-> "k8s client not initialized"],
                        [step |-> "ingressroute", err |-> ""]>>
    /\ Len(writes["A"]) = 1
    /\ writes["A"][1].kind = "ingressroute" /\ writes["A"][1].verb = "create"
    /\ ~configMap.exists /\ ~secret.exists /\ ~deployment.exists /\ ~service.exists
    /\ ingressRoute.exists
    /\ reported["A"] = <<[phase |-> "Deploying", message |-> ""],
                         [phase |-> "Running", message |-> ""]>>

====
